---- MODULE Spec2Model ----
(***************************************************************************)
(* Verification model of the ScamShield honeypot core: the escalation      *)
(* policy (automation.py), the in-memory session store and message         *)
(* handler (session_manager.py, main.py), the intel bundle                 *)
(* (intelligence.py), the tactics stage controller (smart_tactics.py),     *)
(* the in-memory fingerprint tracker (scammer_fingerprint.py) and the      *)
(* MongoDB-backed session service (services/session_service.py).           *)
(***************************************************************************)
EXTENDS Integers, Sequences, FiniteSets, TLC

VARIABLES
    AUTO_CALLBACK,  \* config.AUTO_CALLBACK, read once from the environment
    esc,            \* the session handed to should_send_callback and its answer
    fingerprints,   \* FingerprintTracker._fingerprints: fingerprint_id -> ScammerFingerprint
    phone_index,    \* FingerprintTracker._phone_index: phone -> fingerprint_id
    upi_index,      \* FingerprintTracker._upi_index: upi -> fingerprint_id
    email_index,    \* FingerprintTracker._email_index: email -> fingerprint_id
    acc,            \* per session: the identifiers of session.intel so far
    returned,       \* per session: the fingerprint_id track() last returned for it
    handled,        \* number of messages handled so far
    tracked,        \* per fingerprint_id: the session ids track() was called with for it
    db_sessions,    \* the honeypot_sessions collection: HoneypotSession documents
    db_scammers,    \* the scammer_fingerprints collection: ScammerFingerprint documents
    task,           \* per coroutine: the SessionService call it runs and its locals
    raised,         \* the calls that raised DuplicateKeyError: [op, sid, by]
    got,            \* per session id: the document ids get_or_create_session returned
    added,          \* per session id: the texts whose SessionService.add_message returned
    session_store,  \* SessionManager._sessions: session_id -> Session
    conversation_stage, \* SmartTactics.conversation_stage: session_id -> stage
    advances,       \* per session id: the number of advance_stage calls so far
    document,       \* a HoneypotSession document object
    fold,           \* a message list and the bundle extract_from_conversation made of it
    self_merge,      \* a bundle before and after it is merged into itself
    response,  \* the last request to /api/message and what the caller got back
    deliveries,  \* per session id: the answers of send_final_result so far
    requests,  \* number of requests to /api/message so far
    emotional_states,  \* main.emotional_states: session_id -> EmotionalContext
    scan,  \* a text with a number in it and the bundle extract_from_text made of it
    detection,  \* a text and the dict detect_scam returned for it
    emotion,  \* an EmotionalContext: current_state, state_history, transition_count
    inbound,  \* the message EmotionalContext.transition was last called with
    fingerprint_doc,  \* a ScammerFingerprint document object
    subscription,  \* the Subscription document of one free-tier user in the subscriptions collection
    today,  \* datetime.utcnow().date(), counted in days
    scan_task,  \* per coroutine: the step of ScanService.scan_message it is at and the document it loaded
    scans,  \* per day: the ScanRequest documents of the user inserted that day
    rejected  \* the scan requests that raised "Daily scan limit reached": [day, last_scan_date]

varsEsc == <<AUTO_CALLBACK, esc>>
varsTracker == <<fingerprints, phone_index, upi_index, email_index, acc, returned, handled,
                 tracked>>

varsDb == <<db_sessions, db_scammers, task, raised, got, added>>

varsSession == <<session_store, conversation_stage, advances, document>>

varsIntel == <<fold, self_merge>>

varsHttp == <<response, deliveries, requests, emotional_states>>

varsScan == <<scan>>

varsDetect == <<detection>>

varsAffect == <<emotion, inbound>>

varsRisk == <<fingerprint_doc>>

varsQuota == <<subscription, today, scan_task, scans, rejected>>

vars == <<AUTO_CALLBACK, esc, fingerprints, phone_index, upi_index, email_index,
          acc, returned, handled, tracked, db_sessions, db_scammers, task, raised, got, added,
          session_store, conversation_stage, advances, document, fold, self_merge,
          response, deliveries, requests,
          scan,
          detection,
          emotion, inbound,
          fingerprint_doc,
          subscription, today, scan_task, scans, rejected>>

\* ------------------------------------------------------------------------
\* Bounds of the model
\* ------------------------------------------------------------------------
MaxMessageCount == 22
MaxIntelLen == 2
MaxHandled == 3

Range(f) == {f[x] : x \in DOMAIN f}

\* every ordering of a finite set as a duplicate-free list (list(set(...)))
Orderings(S) == {q \in [1..Cardinality(S) -> S] : Range(q) = S}

\* ------------------------------------------------------------------------
\* Engagement automation: automation.py
\* ------------------------------------------------------------------------
MIN_MESSAGES_BEFORE_REPORT == 6

callback_conditions ==
    [min_messages |-> MIN_MESSAGES_BEFORE_REPORT,
     min_intel_items |-> 1,
     max_messages |-> 20]

\* the four lists should_send_callback adds up, with their duplicates
intel_count(intel) ==
    intel.bank_accounts + intel.upi_ids + intel.phone_numbers + intel.phishing_links

should_send_callback_late(auto, session) ==
    IF ~auto THEN FALSE
    ELSE IF session.callback_sent THEN FALSE
    ELSE IF ~session.scam_detected THEN FALSE
    ELSE IF session.message_count >= callback_conditions.max_messages THEN TRUE
    ELSE IF session.message_count < callback_conditions.min_messages THEN FALSE
    ELSE IF intel_count(session.intel) >= callback_conditions.min_intel_items THEN TRUE
    ELSE IF session.message_count >= callback_conditions.min_messages + 5 THEN TRUE
    ELSE FALSE

should_send_callback(auto, session) ==
    IF ~auto THEN FALSE
    ELSE IF session.callback_sent THEN FALSE
    ELSE IF ~session.scam_detected THEN FALSE
    ELSE IF session.message_count >= callback_conditions.max_messages THEN TRUE
    ELSE IF session.message_count < callback_conditions.min_messages THEN FALSE
    ELSE IF intel_count(session.intel) >= callback_conditions.min_intel_items THEN TRUE
    ELSE IF session.message_count >= callback_conditions.min_messages + 4 THEN TRUE
    ELSE FALSE

\* The sessions the policy is asked about: message_count is len(conversation),
\* each intel field the length of the list it stands for.
EscSessions ==
    [callback_sent : BOOLEAN,
     scam_detected : BOOLEAN,
     message_count : 0..MaxMessageCount,
     intel : [bank_accounts : 0..MaxIntelLen, upi_ids : 0..MaxIntelLen,
              phone_numbers : 0..MaxIntelLen, phishing_links : 0..MaxIntelLen]]

\* ------------------------------------------------------------------------
\* Intel bundle: intelligence.py
\* ------------------------------------------------------------------------
Max(a, b) == IF a >= b THEN a ELSE b
Min(a, b) == IF a <= b THEN a ELSE b

\* ExtractedIntel(): every list empty, no scam type, risk 0
ExtractedIntel ==
    [bank_accounts |-> <<>>, upi_ids |-> <<>>, ifsc_codes |-> <<>>,
     card_numbers |-> <<>>, phone_numbers |-> <<>>, email_addresses |-> <<>>,
     whatsapp_numbers |-> <<>>, phishing_links |-> <<>>, domains |-> <<>>,
     aadhar_numbers |-> <<>>, pan_numbers |-> <<>>, names |-> <<>>,
     crypto_addresses |-> <<>>, amounts |-> <<>>,
     suspicious_keywords |-> <<>>, tactics_detected |-> <<>>,
     scam_type |-> "", risk_score |-> 0]

\* ExtractedIntel.to_dict: every list as list(set(...)), here as the set
to_dict(self) ==
    [bankAccounts |-> Range(self.bank_accounts),
     upiIds |-> Range(self.upi_ids),
     ifscCodes |-> Range(self.ifsc_codes),
     cardNumbers |-> Range(self.card_numbers),
     phoneNumbers |-> Range(self.phone_numbers),
     emailAddresses |-> Range(self.email_addresses),
     whatsappNumbers |-> Range(self.whatsapp_numbers),
     phishingLinks |-> Range(self.phishing_links),
     domains |-> Range(self.domains),
     aadharNumbers |-> Range(self.aadhar_numbers),
     panNumbers |-> Range(self.pan_numbers),
     names |-> Range(self.names),
     cryptoAddresses |-> Range(self.crypto_addresses),
     amounts |-> Range(self.amounts),
     suspiciousKeywords |-> Range(self.suspicious_keywords),
     tacticsDetected |-> Range(self.tactics_detected),
     scamType |-> self.scam_type,
     riskScore |-> self.risk_score]

\* ExtractedIntel.merge(self, other): the value of self afterwards.  With
\* other the same object as self, list.extend appends the list to itself.
merge(self, other) ==
    [bank_accounts |-> self.bank_accounts \o other.bank_accounts,
     upi_ids |-> self.upi_ids \o other.upi_ids,
     ifsc_codes |-> self.ifsc_codes \o other.ifsc_codes,
     card_numbers |-> self.card_numbers \o other.card_numbers,
     phone_numbers |-> self.phone_numbers \o other.phone_numbers,
     email_addresses |-> self.email_addresses \o other.email_addresses,
     whatsapp_numbers |-> self.whatsapp_numbers \o other.whatsapp_numbers,
     phishing_links |-> self.phishing_links \o other.phishing_links,
     domains |-> self.domains \o other.domains,
     aadhar_numbers |-> self.aadhar_numbers \o other.aadhar_numbers,
     pan_numbers |-> self.pan_numbers \o other.pan_numbers,
     names |-> self.names \o other.names,
     crypto_addresses |-> self.crypto_addresses \o other.crypto_addresses,
     amounts |-> self.amounts \o other.amounts,
     suspicious_keywords |-> self.suspicious_keywords \o other.suspicious_keywords,
     tactics_detected |-> self.tactics_detected \o other.tactics_detected,
     scam_type |-> IF self.scam_type = "" /\ other.scam_type # ""
                   THEN other.scam_type ELSE self.scam_type,
     risk_score |-> Max(self.risk_score, other.risk_score)]

calculate_risk_score(intel) ==
    Min((IF intel.upi_ids # <<>> THEN 25 ELSE 0)
        + (IF intel.bank_accounts # <<>> THEN 20 ELSE 0)
        + (IF intel.card_numbers # <<>> THEN 30 ELSE 0)
        + (IF intel.aadhar_numbers # <<>> THEN 15 ELSE 0)
        + (IF intel.pan_numbers # <<>> THEN 15 ELSE 0)
        + (IF intel.phone_numbers # <<>> THEN 10 ELSE 0)
        + (IF intel.email_addresses # <<>> THEN 5 ELSE 0)
        + (IF intel.whatsapp_numbers # <<>> THEN 10 ELSE 0)
        + (IF intel.phishing_links # <<>> THEN 20 ELSE 0)
        + (IF "threat" \in Range(intel.tactics_detected) THEN 15 ELSE 0)
        + (IF "credential" \in Range(intel.tactics_detected) THEN 20 ELSE 0)
        + (IF "urgency" \in Range(intel.tactics_detected) THEN 10 ELSE 0),
        100)

determine_scam_type(tactics, keywords) ==
    LET keywords_lower == Range(keywords) IN
    IF keywords_lower \cap {"kyc", "aadhar", "pan", "verify"} # {} THEN "KYC_SCAM"
    ELSE IF keywords_lower \cap {"won", "lottery", "prize", "winner"} # {}
        THEN "LOTTERY_SCAM"
    ELSE IF keywords_lower \cap {"blocked", "suspended", "closed", "freeze"} # {}
        THEN "ACCOUNT_FREEZE_SCAM"
    ELSE IF keywords_lower \cap {"arrest", "police", "legal", "court"} # {}
        THEN "LEGAL_THREAT_SCAM"
    ELSE IF keywords_lower \cap {"refund", "cashback", "bonus"} # {} THEN "REFUND_SCAM"
    ELSE IF keywords_lower \cap {"otp", "pin", "password", "cvv"} # {}
        THEN "CREDENTIAL_PHISHING"
    ELSE IF "click_bait" \in Range(tactics) THEN "PHISHING_LINK_SCAM"
    ELSE "GENERAL_SCAM"

\* The message texts of the model.  Neutral is the English reply the handler
\* gives while no scam is detected.
Neutral == "Hello, I received your message. Can you please share more details?"
Threat == "send OTP now or police will arrest you"
Pay == "pay to scammer@ybl"
Texts == {Pay, Threat}
AllTexts == Texts \cup {"", "ok sir", Neutral}
\* a request for a screenshot of the one-time code
OtpScreenshot == "send otp screenshot"

\* handle_message's image_messages["en"] for the image types of the model
image_messages ==
    [bank_balance |-> "Here is my balance screenshot sir",
     error_network |-> "Sir network problem! See error screenshot",
     otp_message |-> "Here is OTP screenshot"]

\* handle_message, "if sending image, append image context to reply": the
\* f-string without its camera sign
with_image(reply, image_type) ==
    IF image_type = "none" THEN reply
    ELSE reply \o "\n\n" \o image_messages[image_type]

\* the template replies of HoneypotAgent._fallback_response (language en)
OtpTemplate == "Sir I didn't receive any OTP yet. Can you send again?"
DefaultTemplate == "I don't understand properly. Can you explain again please?"

\* the replies with the words "otp", "receive" and "send" in them
OtpTemplateTexts == {with_image(OtpTemplate, t) : t \in DOMAIN image_messages \cup {"none"}}

\* the other replies with the word "otp" in them
OtpCaptionTexts == {with_image(reply, "otp_message") : reply \in {"ok sir", DefaultTemplate}}

\* extract_upi_ids on the texts of the model
extract_upi_ids(text) == IF text = Pay THEN <<"scammer@ybl">> ELSE <<>>

\* extract_keywords on the texts of the model: (keywords, categories); the
\* keywords are lower case and come in the order of one run (list(set(...)))
extract_keywords(text) ==
    CASE text = Pay -> [keywords |-> <<"pay">>, categories |-> <<"financial">>]
      [] text = Threat ->
            [keywords |-> <<"now", "police", "send", "arrest", "otp">>,
             categories |-> <<"urgency", "threat", "credential", "financial">>]
      [] text = Neutral -> [keywords |-> <<"receive">>, categories |-> <<"financial">>]
      [] text = OtpScreenshot ->
            [keywords |-> <<"otp", "send">>, categories |-> <<"credential", "financial">>]
      [] text \in OtpTemplateTexts ->
            [keywords |-> <<"otp", "receive", "send">>,
             categories |-> <<"credential", "financial">>]
      [] text \in OtpCaptionTexts -> [keywords |-> <<"otp">>, categories |-> <<"credential">>]
      [] OTHER -> [keywords |-> <<>>, categories |-> <<>>]

\* extract_from_text: the other extractors find nothing in the texts of the
\* model and leave their lists empty
extract_from_text(text) ==
    IF text = "" THEN ExtractedIntel
    ELSE LET found == [ExtractedIntel EXCEPT
                         !.upi_ids = extract_upi_ids(text),
                         !.suspicious_keywords = extract_keywords(text).keywords,
                         !.tactics_detected = extract_keywords(text).categories]
         IN [found EXCEPT
               !.risk_score = calculate_risk_score(found),
               !.scam_type = determine_scam_type(found.tactics_detected,
                                                 found.suspicious_keywords)]

\* the loop of extract_from_conversation: combined.merge(intel) per message
RECURSIVE MergeEach(_, _)
MergeEach(combined, messages) ==
    IF messages = <<>> THEN combined
    ELSE MergeEach(merge(combined, extract_from_text(Head(messages).text)),
                   Tail(messages))

\* a variant that looks at the last message only
extract_from_conversation_last(messages) ==
    LET combined == IF messages = <<>> THEN ExtractedIntel
                    ELSE extract_from_text(messages[Len(messages)].text)
    IN [combined EXCEPT !.risk_score = calculate_risk_score(combined)]

extract_from_conversation(messages) ==
    LET combined == MergeEach(ExtractedIntel, messages)
    IN [combined EXCEPT !.risk_score = calculate_risk_score(combined)]

\* The tracker before any message.
TrackerIdle ==
    /\ fingerprints = <<>>
    /\ phone_index = <<>>
    /\ upi_index = <<>>
    /\ email_index = <<>>
    /\ acc = <<>>
    /\ returned = <<>>
    /\ handled = 0
    /\ tracked = <<>>

Sessions == {"s1", "s2"}
Tasks == {"t1", "t2"}
DbSessionIds == {"s1", "s2"}

\* None where a document is expected
NoDoc == [id |-> 0]

IdleTask == [pc |-> "idle", op |-> "none", sid |-> "none", text |-> "none",
             session |-> NoDoc, scammer |-> NoDoc, i |-> 0]

\* The database after init_beanie, before any request.
DbIdle ==
    /\ db_sessions = {}
    /\ db_scammers = {}
    /\ task = [t \in Tasks |-> IdleTask]
    /\ raised = {}
    /\ got = [sid \in DbSessionIds |-> {}]
    /\ added = [sid \in DbSessionIds |-> <<>>]

\* The session store, the tactics and a fresh document before any request.
SessionIdle ==
    /\ session_store = <<>>
    /\ conversation_stage = <<>>
    /\ advances = [s \in Sessions |-> 0]
    /\ document = [messages |-> <<>>, total_messages |-> 0,
                   scammer_messages |-> 0, agent_messages |-> 0]

IntelIdle ==
    /\ fold = [messages |-> <<>>, done |-> FALSE, combined |-> ExtractedIntel]
    /\ self_merge = [done |-> FALSE, before |-> ExtractedIntel, after |-> ExtractedIntel]

\* No request to /api/message has been made.
NoResponse ==
    [session |-> "none", text |-> "", generation |-> "ok", delivery |-> "ok",
     alerting |-> "ok", draw |-> 0, status |-> "none", reply |-> "", image_type |-> "none"]

HttpIdle ==
    /\ response = NoResponse
    /\ deliveries = [s \in Sessions |-> <<>>]
    /\ requests = 0
    /\ emotional_states = <<>>

\* No text has been scanned.
ScanIdle ==
    scan = [text |-> [label |-> "", digits |-> <<>>, grouped |-> FALSE], done |-> FALSE,
            bank_accounts |-> {}, card_numbers |-> {}, aadhar_numbers |-> {}]

\* No text has been given to the detector.
NoResult == [is_scam |-> FALSE, confidence |-> 0, matched_keywords |-> {}, categories |-> {}]

DetectIdle == detection = [text |-> [words |-> {}, patterns |-> 0], done |-> FALSE, result |-> NoResult]

\* EmotionalContext(session_id) after __post_init__, before any message
EmotionalContext ==
    [current_state |-> "confused", state_history |-> <<"confused">>, transition_count |-> 0]

AffectIdle ==
    /\ emotion = EmotionalContext
    /\ inbound = ""

\* ScammerFingerprint(): the defaults of the document's fields.  A risk
\* score is the double nearest to tenths/10 (off 0) or the double next to it
\* below (off -1) or above (off 1).
NoScammer ==
    [phone_numbers |-> <<>>, email_addresses |-> <<>>, upi_ids |-> <<>>,
     session_ids |-> <<>>, total_sessions |-> 0,
     risk_score |-> [tenths |-> 0, off |-> 0], threat_level |-> "low"]

RiskIdle == fingerprint_doc = NoScammer

MaxDays == 1
MaxScans == 12

Days == 0..MaxDays

\* the coroutines that run scan_message for the user
ScanTasks == {"a", "b"}

\* the Subscription AuthService.register inserts for a new user; a
\* last_scan_date of -1 is None
FreeSubscription ==
    [plan_tier |-> "free", scans_today |-> 0, scans_this_month |-> 0, last_scan_date |-> -1]

NoScanTask == [pc |-> "idle", subscription |-> FreeSubscription]

QuotaIdle ==
    /\ subscription = FreeSubscription
    /\ today = 0
    /\ scan_task = [t \in ScanTasks |-> NoScanTask]
    /\ scans = [d \in Days |-> 0]
    /\ rejected = {}

InitEsc ==
    /\ TrackerIdle /\ QuotaIdle /\ RiskIdle /\ AffectIdle /\ DetectIdle /\ ScanIdle /\ HttpIdle
    /\ DbIdle
    /\ SessionIdle
    /\ IntelIdle
    /\ AUTO_CALLBACK \in BOOLEAN
    /\ \E s \in EscSessions : esc = [session |-> s, asked |-> FALSE, answer |-> FALSE]

ShouldSendCallback ==
    /\ ~esc.asked
    /\ esc' = [esc EXCEPT !.asked = TRUE,
                          !.answer = should_send_callback(AUTO_CALLBACK, esc.session)]
    /\ UNCHANGED AUTO_CALLBACK
    /\ UNCHANGED <<varsTracker, varsDb, varsSession, varsIntel, varsHttp, varsScan, varsDetect, varsAffect, varsRisk, varsQuota>>

NextEsc == ShouldSendCallback

SpecEsc == InitEsc /\ [][NextEsc]_vars

\* ------------------------------------------------------------------------
\* C1: the escalation decision is the ordered rule table of
\* (escalationSent, scamDetected, messageCount, intelCount) and of nothing else.
\* ------------------------------------------------------------------------
RuleTable(sent, scam, count, intel) ==
    CASE sent -> FALSE
      [] ~sent /\ ~scam -> FALSE
      [] ~sent /\ scam /\ count >= 20 -> TRUE
      [] ~sent /\ scam /\ count < 6 -> FALSE
      [] ~sent /\ scam /\ count \in 6..19 /\ intel >= 1 -> TRUE
      [] ~sent /\ scam /\ count \in 10..19 /\ intel < 1 -> TRUE
      [] OTHER -> FALSE

EscRule ==
    RuleTable(esc.session.callback_sent, esc.session.scam_detected,
              esc.session.message_count, intel_count(esc.session.intel))

Phones == {"p1"}
Upis == {"u1", "U1"}
Emails == {"e1"}

\* None where a fingerprint_id is expected; no fingerprint is created from an
\* empty list of identifiers, so no fingerprint has this id
NoFingerprint == <<>>

\* str.lower() on the identifier values of the model
Lower(x) == IF x = "U1" THEN "u1" ELSE x

\* the identifier sets a text can yield, and the lists to_dict() makes of them
IdSets == [phones : SUBSET Phones, upis : SUBSET Upis, emails : SUBSET Emails]
NoIds == [phones |-> {}, upis |-> {}, emails |-> {}]
\* what the reply and the synced history add: nothing, or one identifier
FewIds == {ids \in IdSets : Cardinality(ids.phones \cup ids.upis \cup ids.emails) <= 1}
IdUnion(a, b) ==
    [phones |-> a.phones \cup b.phones, upis |-> a.upis \cup b.upis,
     emails |-> a.emails \cup b.emails]
IntelDicts(ids) ==
    [phoneNumbers : Orderings(ids.phones), upiIds : Orderings(ids.upis),
     emailAddresses : Orderings(ids.emails)]

\* ScammerFingerprint(fingerprint_id=...): the dataclass defaults
NewFingerprint(id) ==
    [fingerprint_id |-> id, session_ids |-> <<>>, phone_numbers |-> {},
     upi_ids |-> {}, email_addresses |-> {}]

\* "|".join(sorted(str(i).lower() for i in identifiers if i)), hashed: the id is
\* the multiset of the lowercased values (how many times each occurs)
generate_fingerprint_id(identifiers) ==
    LET vals == {Lower(identifiers[i]) : i \in DOMAIN identifiers}
    IN  [v \in vals |-> Cardinality({i \in DOMAIN identifiers : Lower(identifiers[i]) = v})]

\* for x in xs: if x in index: fingerprint_id = index[x]; break
FirstHit(xs, index) ==
    LET hits == {i \in DOMAIN xs : xs[i] \in DOMAIN index}
    IN  IF hits = {} THEN NoFingerprint
        ELSE index[xs[CHOOSE i \in hits : \A j \in hits : i <= j]]

\* for x in xs: index[x] = fingerprint_id
IndexAll(index, xs, id) == [x \in Range(xs) |-> id] @@ index

Tracker == [fps |-> fingerprints, phone |-> phone_index, upi |-> upi_index,
            email |-> email_index]

Found(T, intel) ==
    LET byPhone == FirstHit(intel.phoneNumbers, T.phone)
        byUpi == FirstHit(intel.upiIds, T.upi)
        byEmail == FirstHit(intel.emailAddresses, T.email)
    IN  IF byPhone # NoFingerprint THEN byPhone
        ELSE IF byUpi # NoFingerprint THEN byUpi
        ELSE byEmail

First(xs) == IF xs = <<>> THEN <<>> ELSE <<xs[1]>>

\* find_or_create: the tracker after the call and the fingerprint_id returned
find_or_create(T, intel) ==
    LET hit == Found(T, intel)
        id == generate_fingerprint_id(First(intel.phoneNumbers) \o First(intel.upiIds)
                                      \o First(intel.emailAddresses))
    IN  IF hit # NoFingerprint /\ hit \in DOMAIN T.fps
        THEN [T |-> T, fp |-> hit]
        ELSE IF intel.phoneNumbers = <<>> /\ intel.upiIds = <<>> /\ intel.emailAddresses = <<>>
        THEN [T |-> T, fp |-> NoFingerprint]
        ELSE [T |-> [fps |-> (id :> NewFingerprint(id)) @@ T.fps,
                     phone |-> IndexAll(T.phone, intel.phoneNumbers, id),
                     upi |-> IndexAll(T.upi, intel.upiIds, id),
                     email |-> IndexAll(T.email, intel.emailAddresses, id)],
              fp |-> id]

\* ScammerFingerprint.update (scam type, language and last_seen are not modelled)
update(fp, session_id, intel) ==
    [fp EXCEPT
        !.session_ids = IF \E i \in DOMAIN @ : @[i] = session_id THEN @
                        ELSE Append(@, session_id),
        !.phone_numbers = @ \cup Range(intel.phoneNumbers),
        !.upi_ids = @ \cup Range(intel.upiIds),
        !.email_addresses = @ \cup Range(intel.emailAddresses)]

\* track: find_or_create, update the fingerprint, point the indexes at it
track(T, session_id, intel) ==
    LET r == find_or_create(T, intel)
    IN  IF r.fp = NoFingerprint THEN r
        ELSE [T |-> [fps |-> [r.T.fps EXCEPT ![r.fp] = update(@, session_id, intel)],
                     phone |-> IndexAll(r.T.phone, intel.phoneNumbers, r.fp),
                     upi |-> IndexAll(r.T.upi, intel.upiIds, r.fp),
                     email |-> IndexAll(r.T.email, intel.emailAddresses, r.fp)],
              fp |-> r.fp]

\* check_fingerprint: what it does to the tracker
check_fingerprint(T, intel) == find_or_create(T, intel).T

\* handle_message as the tracker sees it (main.py steps 7 and 11): the new
\* message's identifiers are checked, session.intel is re-extracted from the whole
\* conversation (the message, the reply and any synced history: msg and more),
\* and the session is tracked when it has a phone number or a payment handle.
HandleIntel(s, msg, more) ==
    /\ handled < MaxHandled
    /\ LET mine == IF s \in DOMAIN acc THEN acc[s] ELSE NoIds
           now == IdUnion(mine, IdUnion(msg, more))
       IN  \E temp \in IntelDicts(msg), intel_dict \in IntelDicts(now) :
           \E T1 \in {check_fingerprint(Tracker, temp)} :
           \E r \in {IF now.phones # {} \/ now.upis # {}
                      THEN track(T1, s, intel_dict)
                      ELSE [T |-> T1, fp |-> NoFingerprint]} :
                 /\ fingerprints' = r.T.fps
                 /\ phone_index' = r.T.phone
                 /\ upi_index' = r.T.upi
                 /\ email_index' = r.T.email
                 /\ acc' = (s :> now) @@ acc
                 /\ returned' = IF r.fp = NoFingerprint THEN returned
                                ELSE (s :> r.fp) @@ returned
                 /\ tracked' = IF r.fp = NoFingerprint THEN tracked
                               ELSE (r.fp :> ((IF r.fp \in DOMAIN tracked
                                                  THEN tracked[r.fp] ELSE {}) \cup {s}))
                                    @@ tracked
    /\ handled' = handled + 1
    /\ UNCHANGED <<varsEsc, varsDb, varsSession, varsIntel, varsHttp, varsScan, varsDetect, varsAffect, varsRisk, varsQuota>>

EscIdle ==
    /\ AUTO_CALLBACK = TRUE
    /\ esc = [session |-> [callback_sent |-> FALSE, scam_detected |-> FALSE,
                           message_count |-> 0,
                           intel |-> [bank_accounts |-> 0, upi_ids |-> 0,
                                      phone_numbers |-> 0, phishing_links |-> 0]],
              asked |-> FALSE, answer |-> FALSE]

InitTracker == TrackerIdle /\ QuotaIdle /\ RiskIdle /\ AffectIdle /\ DetectIdle /\ ScanIdle /\ HttpIdle /\ EscIdle /\ DbIdle /\ SessionIdle /\ IntelIdle

NextTracker == \E s \in Sessions, msg \in IdSets, more \in FewIds : HandleIntel(s, msg, more)

SpecTracker == InitTracker /\ [][NextTracker]_vars

\* ------------------------------------------------------------------------
\* C2: two sessions that share an identifier resolve to one fingerprint id.
\* ------------------------------------------------------------------------
Shares(a, b) ==
    \/ a.phones \cap b.phones # {}
    \/ a.upis \cap b.upis # {}
    \/ a.emails \cap b.emails # {}

\* C2 as stated: once two sessions with a common identifier have both been
\* tracked, track() has returned the same fingerprint id for both.
C2_SharedIdentifierSameFingerprint ==
    \A a, b \in DOMAIN returned :
        Shares(acc[a], acc[b]) => returned[a] = returned[b]

\* ------------------------------------------------------------------------
\* C3: an identifier value belongs to at most one fingerprint.
\* ------------------------------------------------------------------------
\* C3 as stated: no phone, payment handle or email is in the identifier sets
\* of two distinct fingerprints.
C3_IdentifierInOneFingerprint ==
    \A f, g \in DOMAIN fingerprints :
        f # g =>
            /\ fingerprints[f].phone_numbers \cap fingerprints[g].phone_numbers = {}
            /\ fingerprints[f].upi_ids \cap fingerprints[g].upi_ids = {}
            /\ fingerprints[f].email_addresses \cap fingerprints[g].email_addresses = {}


\* ------------------------------------------------------------------------
\* MongoDB-backed session service: services/session_service.py,
\* db/models/session.py, db/models/scammer.py.  Every await is one step; a
\* coroutine works on the copy of the document it loaded, and save() writes
\* that copy back over the stored document.
\* ------------------------------------------------------------------------

\* HoneypotSession(session_id=...): the document defaults
NewSession(session_id) ==
    [id |-> 0, session_id |-> session_id, status |-> "active",
     messages |-> <<>>, total_messages |-> 0,
     scammer_messages |-> 0, agent_messages |-> 0,
     intel |-> [phones |-> <<>>, emails |-> <<>>, upi_ids |-> <<>>],
     scammer_fingerprint_id |-> 0]

\* the document ids insert() hands out: none is ever deleted, so the next is new
NextId(coll) == Cardinality(coll) + 1

\* find_one(HoneypotSession.session_id == session_id): the matching documents
FindSession(session_id) == {d \in db_sessions : d.session_id = session_id}

\* insert() under the unique index on session_id
SessionInsertRaises(doc) == \E d \in db_sessions : d.session_id = doc.session_id

\* save(): the stored document with this id is replaced by the caller's copy
Save(coll, doc) == {d \in coll : d.id # doc.id} \cup {doc}

Contains(xs, x) == \E k \in DOMAIN xs : xs[k] = x

\* if value not in list: list.append(value)
AppendNew(xs, x) == IF Contains(xs, x) THEN xs ELSE Append(xs, x)

RECURSIVE AppendAllNew(_, _)
AppendAllNew(xs, ys) ==
    IF ys = <<>> THEN xs ELSE AppendAllNew(AppendNew(xs, Head(ys)), Tail(ys))

\* HoneypotSession.add_intel
add_intel(session, field, value) ==
    [session EXCEPT !.intel[field] = AppendNew(@, value)]

\* ScammerFingerprint.find_by_identifier: the documents the $or query matches
FindByIdentifier(value) ==
    {d \in db_scammers :
        \/ Contains(d.phone_numbers, value)
        \/ Contains(d.email_addresses, value)
        \/ Contains(d.upi_ids, value)}

\* min(1.0, risk_score + 0.1) in double arithmetic, for the scores that
\* come of 0.0 by adding 0.1: the sums are 0.1, 0.2, 0.30000000000000004, 0.4,
\* 0.5, 0.6, 0.7, 0.7999999999999999, 0.8999999999999999, 0.9999999999999999
\* and then 1.0
raise_risk(score) ==
    CASE score.tenths = 2 -> [tenths |-> 3, off |-> 1]
      [] score.tenths = 7 -> [tenths |-> 8, off |-> -1]
      [] score.tenths \in {8, 9} -> [tenths |-> score.tenths + 1, off |-> score.off]
      [] score.tenths = 10 -> [tenths |-> 10, off |-> 0]
      [] OTHER -> [tenths |-> score.tenths + 1, off |-> 0]

\* risk_score >= tenths/10, the literal being the double nearest to it
AtLeast(score, tenths) ==
    score.tenths > tenths \/ (score.tenths = tenths /\ score.off >= 0)

\* ScammerFingerprint._update_threat_level
update_threat_level(doc) ==
    [doc EXCEPT !.threat_level =
        IF AtLeast(doc.risk_score, 8) THEN "critical"
        ELSE IF AtLeast(doc.risk_score, 6) THEN "high"
        ELSE IF AtLeast(doc.risk_score, 3) THEN "medium"
        ELSE "low"]

\* add_session without the test for a session id that is already there
add_session_again(doc, session_id) ==
    update_threat_level([doc EXCEPT !.session_ids = Append(@, session_id),
                                    !.total_sessions = @ + 1,
                                    !.risk_score = raise_risk(@)])

\* ScammerFingerprint.add_session
add_session(doc, session_id) ==
    IF Contains(doc.session_ids, session_id) THEN doc
    ELSE update_threat_level([doc EXCEPT !.session_ids = Append(@, session_id),
                                         !.total_sessions = @ + 1,
                                         !.risk_score = raise_risk(@)])

\* create_scammer_fingerprint_hash: sha256 of the sorted, lowercased, stripped
\* identifiers joined by "|": the multiset of the lowercased values
create_scammer_fingerprint_hash(identifiers) == generate_fingerprint_id(identifiers)

\* insert() under the unique index on fingerprint_hash
ScammerInsertRaises(doc) == \E d \in db_scammers : d.fingerprint_hash = doc.fingerprint_hash

\* _link_to_scammer: identifiers = phones + emails + upi_ids
LinkIdentifiers(session) ==
    session.intel.phones \o session.intel.emails \o session.intel.upi_ids

\* _link_to_scammer, the branch that updates the scammer it found
LinkUpdated(scammer, session) ==
    LET s1 == add_session(scammer, session.session_id)
    IN  [s1 EXCEPT !.phone_numbers = AppendAllNew(@, session.intel.phones),
                   !.email_addresses = AppendAllNew(@, session.intel.emails),
                   !.upi_ids = AppendAllNew(@, session.intel.upi_ids)]

\* _link_to_scammer, the branch that creates a fingerprint
LinkCreated(session) ==
    [id |-> 0,
     fingerprint_hash |-> create_scammer_fingerprint_hash(LinkIdentifiers(session)),
     phone_numbers |-> session.intel.phones,
     email_addresses |-> session.intel.emails,
     upi_ids |-> session.intel.upi_ids,
     session_ids |-> <<session.session_id>>,
     total_sessions |-> 1,
     risk_score |-> [tenths |-> 0, off |-> 0],
     threat_level |-> "low"]

\* the call returns
Return(t) == task' = [task EXCEPT ![t] = IdleTask]

\* the call raises pymongo's DuplicateKeyError, which nothing catches; `by` are
\* the sessions of the stored document that holds the key
Raise(t, by) ==
    /\ raised' = raised \cup {[op |-> task[t].op, sid |-> task[t].sid, by |-> by]}
    /\ task' = [task EXCEPT ![t] = IdleTask]

\* a request starts one of the service calls
Start(t, op, sid) ==
    /\ UNCHANGED <<varsEsc, varsTracker, varsSession, varsIntel, varsHttp, varsScan, varsDetect, varsAffect, varsRisk, varsQuota>>
    /\ task[t].pc = "idle"
    /\ task' = [task EXCEPT ![t] = [IdleTask EXCEPT !.pc = "find_session", !.op = op,
                                                   !.sid = sid]]
    /\ UNCHANGED <<db_sessions, db_scammers, raised, got, added>>

\* get_or_create_session / get_session: await HoneypotSession.find_one(...).
\* add_message starts with get_or_create_session and goes on with its result.
FindOne(t) ==
    /\ UNCHANGED <<varsEsc, varsTracker, varsSession, varsIntel, varsHttp, varsScan, varsDetect, varsAffect, varsRisk, varsQuota>>
    /\ task[t].pc = "find_session"
    /\ UNCHANGED <<db_sessions, db_scammers, raised, added>>
    /\ IF FindSession(task[t].sid) = {}
       THEN IF task[t].op \in {"get_or_create_session", "add_message"}
            THEN /\ task' = [task EXCEPT ![t].pc = "insert_session"]
                 /\ UNCHANGED got
            ELSE Return(t) /\ UNCHANGED got
       ELSE \E d \in FindSession(task[t].sid) :
              IF task[t].op = "get_or_create_session"
              THEN /\ Return(t)
                   /\ got' = [got EXCEPT ![task[t].sid] = @ \cup {d.id}]
              ELSE IF task[t].op = "add_message"
              THEN /\ task' = [task EXCEPT ![t].session = d, ![t].pc = "save_message"]
                   /\ got' = [got EXCEPT ![task[t].sid] = @ \cup {d.id}]
              ELSE /\ task' = [task EXCEPT ![t].session = d, ![t].pc = "save_session"]
                   /\ UNCHANGED got

\* get_or_create_session: session = HoneypotSession(...); await session.insert()
InsertSession(t) ==
    /\ UNCHANGED <<varsEsc, varsTracker, varsSession, varsIntel, varsHttp, varsScan, varsDetect, varsAffect, varsRisk, varsQuota>>
    /\ task[t].pc = "insert_session"
    /\ UNCHANGED <<db_scammers, added>>
    /\ LET doc == [NewSession(task[t].sid) EXCEPT !.id = NextId(db_sessions)]
       IN  IF SessionInsertRaises(doc)
           THEN /\ Raise(t, {doc.session_id})
                /\ UNCHANGED <<db_sessions, got>>
           ELSE /\ db_sessions' = db_sessions \cup {doc}
                /\ IF task[t].op = "add_message"
                   THEN task' = [task EXCEPT ![t].session = doc, ![t].pc = "save_message"]
                   ELSE Return(t)
                /\ got' = [got EXCEPT ![task[t].sid] = @ \cup {doc.id}]
                /\ UNCHANGED raised

\* close_session: await session.close_session(), which saves the document
SaveSession(t) ==
    /\ UNCHANGED <<varsEsc, varsTracker, varsSession, varsIntel, varsHttp, varsScan, varsDetect, varsAffect, varsRisk, varsQuota>>
    /\ task[t].pc = "save_session"
    /\ UNCHANGED <<db_scammers, raised, got, added>>
    /\ LET doc == [task[t].session EXCEPT !.status = "closed"]
       IN  /\ db_sessions' = Save(db_sessions, doc)
           /\ IF LinkIdentifiers(doc) = <<>>
              THEN task' = [task EXCEPT ![t].session = doc, ![t].pc = "linked"]
              ELSE task' = [task EXCEPT ![t].session = doc, ![t].i = 1,
                                        ![t].pc = "find_scammer"]

\* close_session returns once _link_to_scammer has returned
Linked(t) ==
    /\ UNCHANGED <<varsEsc, varsTracker, varsSession, varsIntel, varsHttp, varsScan, varsDetect, varsAffect, varsRisk, varsQuota>>
    /\ task[t].pc = "linked"
    /\ Return(t)
    /\ UNCHANGED <<db_sessions, db_scammers, raised, got, added>>

\* _link_to_scammer: scammer = await ScammerFingerprint.find_by_identifier(identifier)
FindScammer(t) ==
    /\ UNCHANGED <<varsEsc, varsTracker, varsSession, varsIntel, varsHttp, varsScan, varsDetect, varsAffect, varsRisk, varsQuota>>
    /\ task[t].pc = "find_scammer"
    /\ UNCHANGED <<db_sessions, db_scammers, raised, got, added>>
    /\ LET ids == LinkIdentifiers(task[t].session)
           hits == FindByIdentifier(ids[task[t].i])
       IN  IF hits # {}
           THEN \E d \in hits : task' = [task EXCEPT ![t].scammer = d, ![t].pc = "save_scammer"]
           ELSE IF task[t].i < Len(ids)
           THEN task' = [task EXCEPT ![t].i = @ + 1]
           ELSE task' = [task EXCEPT ![t].pc = "insert_scammer"]

\* _link_to_scammer: scammer.add_session(...); add_identifier(...); await scammer.save()
SaveScammer(t) ==
    /\ UNCHANGED <<varsEsc, varsTracker, varsSession, varsIntel, varsHttp, varsScan, varsDetect, varsAffect, varsRisk, varsQuota>>
    /\ task[t].pc = "save_scammer"
    /\ LET doc == LinkUpdated(task[t].scammer, task[t].session)
       IN  /\ db_scammers' = Save(db_scammers, doc)
           /\ task' = [task EXCEPT ![t].scammer = doc, ![t].pc = "link_session"]
    /\ UNCHANGED <<db_sessions, raised, got, added>>

\* _link_to_scammer: scammer = ScammerFingerprint(...); await scammer.insert()
InsertScammer(t) ==
    /\ UNCHANGED <<varsEsc, varsTracker, varsSession, varsIntel, varsHttp, varsScan, varsDetect, varsAffect, varsRisk, varsQuota>>
    /\ task[t].pc = "insert_scammer"
    /\ UNCHANGED <<db_sessions, got, added>>
    /\ LET doc == [LinkCreated(task[t].session) EXCEPT !.id = NextId(db_scammers)]
       IN  IF ScammerInsertRaises(doc)
           THEN /\ Raise(t, UNION {Range(d.session_ids) : d \in
                                      {e \in db_scammers : e.fingerprint_hash = doc.fingerprint_hash}})
                /\ UNCHANGED db_scammers
           ELSE /\ db_scammers' = db_scammers \cup {doc}
                /\ task' = [task EXCEPT ![t].scammer = doc, ![t].pc = "link_session"]
                /\ UNCHANGED raised

\* _link_to_scammer: session.scammer_fingerprint_id = str(scammer.id); await session.save()
LinkSession(t) ==
    /\ UNCHANGED <<varsEsc, varsTracker, varsSession, varsIntel, varsHttp, varsScan, varsDetect, varsAffect, varsRisk, varsQuota>>
    /\ task[t].pc = "link_session"
    /\ LET doc == [task[t].session EXCEPT !.scammer_fingerprint_id = task[t].scammer.id]
       IN  /\ db_sessions' = Save(db_sessions, doc)
           /\ task' = [task EXCEPT ![t].session = doc, ![t].pc = "linked"]
    /\ UNCHANGED <<db_scammers, raised, got, added>>

\* The collections a run starts from: no fingerprints, and each session id either
\* unknown or stored with the identifiers add_intel has put into it.
StoredSession(sid, phones, upis) ==
    LET s0 == [NewSession(sid) EXCEPT !.id = IF sid = "s1" THEN 1 ELSE 2]
        s1 == IF phones THEN add_intel(s0, "phones", "p1") ELSE s0
    IN  IF upis THEN add_intel(s1, "upi_ids", "u1") ELSE s1

InitDb ==
    /\ SessionIdle
    /\ IntelIdle
    /\ TrackerIdle /\ QuotaIdle /\ RiskIdle /\ AffectIdle /\ DetectIdle /\ ScanIdle /\ HttpIdle
    /\ EscIdle
    /\ db_sessions \in {{}, {StoredSession("s1", TRUE, FALSE)}} \cup
          {{StoredSession("s1", TRUE, FALSE), StoredSession("s2", p, u)} : p, u \in BOOLEAN}
    /\ db_scammers = {}
    /\ task = [t \in Tasks |-> IdleTask]
    /\ raised = {}
    /\ got = [sid \in DbSessionIds |-> {}]
    /\ added = [sid \in DbSessionIds |-> <<>>]

NextDb ==
    \E t \in Tasks :
        \/ \E sid \in DbSessionIds : Start(t, "get_or_create_session", sid)
        \/ \E sid \in DbSessionIds : Start(t, "close_session", sid)
        \/ FindOne(t)
        \/ InsertSession(t)
        \/ SaveSession(t)
        \/ FindScammer(t)
        \/ SaveScammer(t)
        \/ InsertScammer(t)
        \/ LinkSession(t)
        \/ Linked(t)

SpecDb == InitDb /\ [][NextDb]_vars

\* ------------------------------------------------------------------------
\* C4: two sessions registering the same new identifier concurrently end with
\* one fingerprint; neither registration fails.
\* ------------------------------------------------------------------------
\* the identifiers a fingerprint was created for: the values that were hashed
CreatedFor(scammer) == DOMAIN scammer.fingerprint_hash

\* C4 as stated: no session's registration raises because another session
\* registered the same identifiers first, and no identifier has two
\* fingerprints created for it.
C4_SingleWinnerFingerprint ==
    /\ \A r \in raised : r.op = "close_session" => r.by \subseteq {r.sid}
    /\ \A c, d \in db_scammers : c.id # d.id => CreatedFor(c) \cap CreatedFor(d) = {}

\* ------------------------------------------------------------------------
\* C10: get-or-create of an unknown session id creates the session, never
\* raises, and all calls for one id return the same session.
\* ------------------------------------------------------------------------
\* C10 as stated, for the MongoDB-backed store.
C10_GetOrCreateNeverFails ==
    /\ \A r \in raised : r.op # "get_or_create_session"
    /\ \A a, b \in db_sessions : a.session_id = b.session_id => a.id = b.id
    /\ \A sid \in DbSessionIds : Cardinality(got[sid]) <= 1

\* ------------------------------------------------------------------------
\* Tactics stages: smart_tactics.py
\* ------------------------------------------------------------------------
stages == <<"initial_confusion", "building_trust", "fake_compliance",
            "information_gathering", "delay_tactics", "final_extraction">>

\* list.index, counted from 0 as in the source
StageIndex(stage) == (CHOOSE i \in 1..Len(stages) : stages[i] = stage) - 1

get_current_stage(stage_of, session_id) ==
    IF session_id \in DOMAIN stage_of THEN stage_of[session_id] ELSE "initial_confusion"

\* a variant that moves every session it knows to its next stage
advance_stage_all(stage_of, session_id) ==
    [x \in DOMAIN stage_of \cup {session_id} |->
        stages[Min(StageIndex(get_current_stage(stage_of, x)) + 1, Len(stages) - 1) + 1]]

\* a variant that starts over after the last stage
advance_stage_wraps(stage_of, session_id) ==
    LET current == get_current_stage(stage_of, session_id)
        current_idx == IF current \in Range(stages) THEN StageIndex(current) ELSE 0
        next_idx == (current_idx + 1) % Len(stages)
    IN (session_id :> stages[next_idx + 1]) @@ stage_of

\* advance_stage: the conversation_stage dictionary afterwards
advance_stage(stage_of, session_id) ==
    LET current == get_current_stage(stage_of, session_id)
        current_idx == IF current \in Range(stages) THEN StageIndex(current) ELSE 0
        next_idx == Min(current_idx + 1, Len(stages) - 1)
    IN (session_id :> stages[next_idx + 1]) @@ stage_of

\* ------------------------------------------------------------------------
\* In-memory sessions and the message handler: session_manager.py, main.py
\* ------------------------------------------------------------------------
Senders == {"scammer", "user"}
Replies == {"ok sir"}

\* Session(session_id): timestamps are left out, scam_confidence is in
\* hundredths
Session ==
    [conversation |-> <<>>, scam_detected |-> FALSE, scam_confidence |-> 0,
     intel |-> ExtractedIntel, callback_sent |-> FALSE]

\* SessionManager.get_or_create: the _sessions dictionary afterwards
get_or_create(store, session_id) ==
    IF session_id \in DOMAIN store THEN store ELSE (session_id :> Session) @@ store

\* a variant that puts the message in front
add_message_first(session, sender, text) ==
    [session EXCEPT !.conversation = <<[sender |-> sender, text |-> text]>> \o @]

\* Session.add_message
add_message(session, sender, text) ==
    [session EXCEPT !.conversation = Append(@, [sender |-> sender, text |-> text])]

\* handle_message step 3: history messages whose text is not yet there
RECURSIVE SyncHistory(_, _)
SyncHistory(session, conversationHistory) ==
    IF conversationHistory = <<>> THEN session
    ELSE LET msg == Head(conversationHistory)
             existing_texts == {m.text : m \in Range(session.conversation)}
         IN SyncHistory(IF msg.text \notin existing_texts
                            THEN add_message(session, msg.sender, msg.text)
                            ELSE session,
                        Tail(conversationHistory))

\* detect_scam(" ".join(texts))["confidence"] in hundredths for texts of the
\* model: a text joined more than once scores as once
joined_confidence(texts) ==
    IF {Threat, Pay} \subseteq texts THEN 87
    ELSE IF Threat \in texts THEN 59
    ELSE IF {Pay, OtpScreenshot} \subseteq texts THEN 61
    ELSE IF Pay \in texts THEN 28
    ELSE IF OtpScreenshot \in texts THEN 18
    ELSE 0

\* detect_scam's threshold for is_scam, in hundredths
ScamThreshold == 30

\* detect_scam(text) on the texts of the model
detect_scam_result(text) ==
    [is_scam |-> joined_confidence({text}) >= ScamThreshold,
     confidence |-> joined_confidence({text})]

\* detect_scam(text)["is_scam"] on the texts of the model
detect_scam(text) == detect_scam_result(text).is_scam

\* analyze_conversation(messages): detect_scam on the scammer's texts joined
analyze_conversation_result(messages) ==
    LET scammer_texts == {m.text : m \in {x \in Range(messages) : x.sender = "scammer"}}
    IN [is_scam |-> joined_confidence(scammer_texts) >= ScamThreshold,
        confidence |-> joined_confidence(scammer_texts)]

\* analyze_conversation(messages)["is_scam"]
analyze_conversation(messages) == analyze_conversation_result(messages).is_scam

\* handle_message step 6: the detection the session's scam status is updated from
scam_result_of(received, text) ==
    IF ~detect_scam(text) /\ Len(received.conversation) > 1
        THEN analyze_conversation_result(received.conversation)
        ELSE detect_scam_result(text)

\* a variant that stores the latest detection as it comes
update_scam_status_overwrites(session, scam_result) ==
    [session EXCEPT !.scam_detected = scam_result.is_scam,
                    !.scam_confidence = scam_result.confidence]

\* handle_message, "update session scam status"
update_scam_status(session, scam_result) ==
    IF scam_result.is_scam
        THEN [session EXCEPT !.scam_detected = TRUE,
                             !.scam_confidence = Max(@, scam_result.confidence)]
        ELSE session

\* ImageGenerator.detect_image_request on the texts of the model: the first
\* image type of patterns with a keyword in the message, "screenshot" of
\* bank_balance coming before "otp screenshot" and "send otp" of otp
check_image_request(text) ==
    CASE text = OtpScreenshot -> "bank_balance"
      [] text = Threat -> "otp"
      [] OTHER -> "none"

\* the keywords of patterns["otp"] in a text of the model
otp_keywords_matched(text) ==
    CASE text = OtpScreenshot -> {"otp screenshot", "send otp"}
      [] text = Threat -> {"send otp"}
      [] OTHER -> {}

\* generate_image_for_request(request_type)["type"]; _generate_image
\* builds a URL and always succeeds
generate_image_for_request(request_type) ==
    CASE request_type = "bank_balance" -> "bank_balance"
      [] request_type = "otp" -> "otp_message"
      [] OTHER -> "error_network"

\* handle_message step 9: the image type decided for a message, "none" when
\* the message asks for no image
image_type_for(text, current_stage) ==
    IF check_image_request(text) = "none" THEN "none"
    ELSE IF check_image_request(text) = "otp"
            /\ current_stage \in {"initial_confusion", "building_trust"}
        THEN generate_image_for_request("error")
    ELSE generate_image_for_request(check_image_request(text))

\* the session as should_send_callback reads it
Counted(session) ==
    [callback_sent |-> session.callback_sent,
     scam_detected |-> session.scam_detected,
     message_count |-> Len(session.conversation),
     intel |-> [bank_accounts |-> Len(session.intel.bank_accounts),
                upi_ids |-> Len(session.intel.upi_ids),
                phone_numbers |-> Len(session.intel.phone_numbers),
                phishing_links |-> Len(session.intel.phishing_links)]]

\* process_callback without "if result.get('success'): session.callback_sent = True"
process_callback_unflagged(session, success) ==
    [session EXCEPT !.intel = extract_from_conversation(session.conversation)]

\* process_callback; success is send_final_result's answer
process_callback(session, success) ==
    [session EXCEPT !.intel = extract_from_conversation(session.conversation),
                    !.callback_sent = IF success THEN TRUE ELSE @]

\* HoneypotSession.add_message on a document object
document_add_message(doc, sender, text) ==
    [doc EXCEPT
       !.messages = Append(@, [sender |-> sender, text |-> text]),
       !.total_messages = @ + 1,
       !.scammer_messages = @ + (IF sender = "scammer" THEN 1 ELSE 0),
       !.agent_messages = @ + (IF sender = "scammer" THEN 0 ELSE 1)]

MaxMessages == 6
MaxAdvances == 6

\* the advance_stage calls so far, over all sessions
RECURSIVE Advanced(_, _)
Advanced(count, ids) ==
    IF ids = {} THEN 0
    ELSE LET s == CHOOSE x \in ids : TRUE IN count[s] + Advanced(count, ids \ {s})

\* the messages the sessions of the store hold
RECURSIVE Total(_, _)
Total(store, ids) ==
    IF ids = {} THEN 0
    ELSE LET s == CHOOSE x \in ids : TRUE
         IN (IF s \in DOMAIN store THEN Len(store[s].conversation) ELSE 0)
            + Total(store, ids \ {s})

Histories == {<<>>, <<[sender |-> "scammer", text |-> Pay]>>,
              <<[sender |-> "user", text |-> Threat]>>}

\* handle_message as far as it changes the session store and the tactics
\* stage.  The inbound message is the scammer's (request.message.sender),
\* reply is the text the agent generates once a scam is detected, success
\* the answer of send_final_result.  What it does to emotional_states and
\* what the caller gets back is HandleRequest.  What the handler does to the fingerprint
\* tracker (check_fingerprint, add_or_update_scammer) is HandleIntel.
HandleMessage(s, conversationHistory, text, reply, success) ==
    /\ Advanced(advances, Sessions) < MaxAdvances
    /\ \E received \in {add_message(SyncHistory(get_or_create(session_store, s)[s],
                                                 conversationHistory),
                                     "scammer", text)} :
       \E detected \in {update_scam_status(received, scam_result_of(received, text))} :
       \E replied \in
            {add_message(detected, "user",
                         IF detected.scam_detected
                             THEN with_image(reply,
                                             image_type_for(text,
                                                 get_current_stage(conversation_stage, s)))
                             ELSE Neutral)} :
          /\ Total(session_store, Sessions \ {s}) + Len(replied.conversation)
                + Len(document.messages) <= MaxMessages
          /\ \E extracted \in
                  {[replied EXCEPT
                      !.intel = merge(extract_from_conversation(replied.conversation),
                                      extract_from_text(text))]} :
             \E reported \in
                  {IF should_send_callback(AUTO_CALLBACK, Counted(extracted))
                      THEN process_callback(extracted, success) ELSE extracted} :
                session_store' = (s :> reported) @@ session_store
          /\ conversation_stage' = IF detected.scam_detected
                                       THEN advance_stage(conversation_stage, s)
                                       ELSE conversation_stage
          /\ advances' = IF detected.scam_detected
                             THEN [advances EXCEPT ![s] = @ + 1] ELSE advances
    /\ UNCHANGED document
    /\ UNCHANGED <<varsEsc, varsTracker, varsDb, varsIntel, varsHttp, varsScan, varsDetect, varsAffect, varsRisk, varsQuota>>

\* advance_conversation(session_id)
AdvanceConversation(s) ==
    /\ Advanced(advances, Sessions) < MaxAdvances
    /\ conversation_stage' = advance_stage(conversation_stage, s)
    /\ advances' = [advances EXCEPT ![s] = @ + 1]
    /\ UNCHANGED <<session_store, document>>
    /\ UNCHANGED <<varsEsc, varsTracker, varsDb, varsIntel, varsHttp, varsScan, varsDetect, varsAffect, varsRisk, varsQuota>>

\* force_callback: 404 without a session, nothing once the callback is sent
ForceCallback(s, success) ==
    /\ s \in DOMAIN session_store
    /\ ~session_store[s].callback_sent
    /\ session_store' = [session_store EXCEPT ![s] = process_callback(@, success)]
    /\ UNCHANGED <<conversation_stage, advances, document>>
    /\ UNCHANGED <<varsEsc, varsTracker, varsDb, varsIntel, varsHttp, varsScan, varsDetect, varsAffect, varsRisk, varsQuota>>

DocumentAddMessage(sender, text) ==
    /\ Total(session_store, Sessions) + Len(document.messages) < MaxMessages
    /\ document' = document_add_message(document, sender, text)
    /\ UNCHANGED <<session_store, conversation_stage, advances>>
    /\ UNCHANGED <<varsEsc, varsTracker, varsDb, varsIntel, varsHttp, varsScan, varsDetect, varsAffect, varsRisk, varsQuota>>

InitSession == TrackerIdle /\ QuotaIdle /\ RiskIdle /\ AffectIdle /\ DetectIdle /\ ScanIdle /\ HttpIdle /\ EscIdle /\ DbIdle /\ SessionIdle /\ IntelIdle

NextSession ==
    \/ \E s \in Sessions, h \in Histories, text \in Texts, reply \in Replies,
          success \in BOOLEAN : HandleMessage(s, h, text, reply, success)
    \/ \E s \in Sessions : AdvanceConversation(s)
    \/ \E s \in Sessions, success \in BOOLEAN : ForceCallback(s, success)
    \/ \E sender \in Senders, text \in Replies : DocumentAddMessage(sender, text)

SpecSession == InitSession /\ [][NextSession]_vars

IsPrefix(a, b) == Len(a) <= Len(b) /\ SubSeq(b, 1, Len(a)) = a

\* C5: within a session the stage index never decreases; an advance moves it
\* to index + 1, and at the final stage (final_extraction) leaves it where
\* it is instead of wrapping around.
C5_StageNeverDecreases ==
    [][\A s \in Sessions :
         LET idx == StageIndex(get_current_stage(conversation_stage, s))
             next == StageIndex(get_current_stage(conversation_stage', s))
         IN /\ next >= idx
            /\ advances'[s] # advances[s] =>
                  next = (IF idx = Len(stages) - 1 THEN idx ELSE idx + 1)
            /\ advances'[s] = advances[s] => next = idx]_vars

\* an advance was called on a session already at the final stage
C5_Witness ==
    \E s \in Sessions :
        /\ advances[s] > Len(stages) - 1
        /\ get_current_stage(conversation_stage, s) = "final_extraction"

\* C6: the risk score of a session's intel after a message is processed is
\* never lower than it was after any earlier message of the session.
C6_RiskNeverDecreases ==
    [][\A s \in DOMAIN session_store :
         /\ s \in DOMAIN session_store'
         /\ session_store'[s].intel.risk_score >= session_store[s].intel.risk_score]_vars

\* two messages handled, the later one scoring lower by itself than the session
C6_Witness ==
    \E s \in DOMAIN session_store :
        LET conversation == session_store[s].conversation IN
        /\ Len(conversation) >= 4
        /\ conversation[Len(conversation) - 1].sender = "scammer"
        /\ extract_from_text(conversation[Len(conversation) - 1].text).risk_score
              < session_store[s].intel.risk_score
        /\ session_store[s].intel.risk_score = 70

MaxHistory == 3

FoldHistories ==
    UNION {[1..n -> {[sender |-> "scammer", text |-> text] : text \in AllTexts}] :
             n \in 0..MaxHistory}

InitIntel ==
    /\ TrackerIdle /\ QuotaIdle /\ RiskIdle /\ AffectIdle /\ DetectIdle /\ ScanIdle /\ HttpIdle /\ EscIdle /\ DbIdle /\ SessionIdle
    /\ \E h \in FoldHistories :
          fold = [messages |-> h, done |-> FALSE, combined |-> ExtractedIntel]
    /\ self_merge = [done |-> FALSE, before |-> ExtractedIntel, after |-> ExtractedIntel]

ExtractFromConversation ==
    /\ ~fold.done
    /\ fold' = [fold EXCEPT !.done = TRUE,
                            !.combined = extract_from_conversation(fold.messages)]
    /\ UNCHANGED self_merge
    /\ UNCHANGED <<varsEsc, varsTracker, varsDb, varsSession, varsHttp, varsScan, varsDetect, varsAffect, varsRisk, varsQuota>>

\* B.merge(B) on the bundle of the conversation
MergeIntoItself ==
    /\ fold.done
    /\ ~self_merge.done
    /\ self_merge' = [done |-> TRUE, before |-> fold.combined,
                      after |-> merge(fold.combined, fold.combined)]
    /\ UNCHANGED fold
    /\ UNCHANGED <<varsEsc, varsTracker, varsDb, varsSession, varsHttp, varsScan, varsDetect, varsAffect, varsRisk, varsQuota>>

NextIntel == ExtractFromConversation \/ MergeIntoItself

SpecIntel == InitIntel /\ [][NextIntel]_vars

\* C7: merging a bundle into itself is a no-op: every field (each value
\* list, keywords, tactics, scam type, risk score) is as it was before.
C7_MergeIntoItselfIsNoOp ==
    self_merge.done => self_merge.after = self_merge.before

\* the messages in another order
Reordered(messages) ==
    {[i \in 1..Len(messages) |-> messages[p[i]]] :
        p \in {q \in [1..Len(messages) -> 1..Len(messages)] :
                 \A i, j \in 1..Len(messages) : q[i] = q[j] => i = j}}

\* the per-message bundles merged as two groups, the second group folded first
Grouped(messages, k) ==
    LET left == MergeEach(ExtractedIntel, SubSeq(messages, 1, k))
        right == MergeEach(ExtractedIntel, SubSeq(messages, k + 1, Len(messages)))
        combined == merge(left, right)
    IN [combined EXCEPT !.risk_score = calculate_risk_score(combined)]

\* C8: extraction over a message history gives the same bundle (same value
\* sets, same scam type, same risk score) for every ordering and every
\* grouping of the messages.
C8_ExtractionOrderIndependent ==
    fold.done =>
        /\ \A m \in Reordered(fold.messages) :
              to_dict(extract_from_conversation(m)) = to_dict(fold.combined)
        /\ \A k \in 0..Len(fold.messages) :
              to_dict(Grouped(fold.messages, k)) = to_dict(fold.combined)

\* ------------------------------------------------------------------------
\* SessionService.add_message from concurrent requests
\* ------------------------------------------------------------------------
MaxAdded == 2

\* the add_message calls that have not returned yet
InFlight == {t \in Tasks : task[t].op = "add_message"}

RECURSIVE AddedSoFar(_)
AddedSoFar(ids) ==
    IF ids = {} THEN 0
    ELSE LET s == CHOOSE x \in ids : TRUE IN Len(added[s]) + AddedSoFar(ids \ {s})

\* a request calls SessionService.add_message(session_id, "scammer", text)
StartAddMessage(t, sid, text) ==
    /\ UNCHANGED <<varsEsc, varsTracker, varsSession, varsIntel, varsHttp, varsScan, varsDetect, varsAffect, varsRisk, varsQuota>>
    /\ task[t].pc = "idle"
    /\ AddedSoFar(DbSessionIds) + Cardinality(InFlight) < MaxAdded
    /\ task' = [task EXCEPT ![t] = [IdleTask EXCEPT !.pc = "find_session",
                                                   !.op = "add_message",
                                                   !.sid = sid, !.text = text]]
    /\ UNCHANGED <<db_sessions, db_scammers, raised, got, added>>

\* add_message: session.add_message(sender, text, ...); await session.save()
SaveMessage(t) ==
    /\ UNCHANGED <<varsEsc, varsTracker, varsSession, varsIntel, varsHttp, varsScan, varsDetect, varsAffect, varsRisk, varsQuota>>
    /\ task[t].pc = "save_message"
    /\ db_sessions' = Save(db_sessions,
                           document_add_message(task[t].session, "scammer", task[t].text))
    /\ added' = [added EXCEPT ![task[t].sid] = Append(@, task[t].text)]
    /\ Return(t)
    /\ UNCHANGED <<db_scammers, raised, got>>

InitDbMessages == TrackerIdle /\ QuotaIdle /\ RiskIdle /\ AffectIdle /\ DetectIdle /\ ScanIdle /\ HttpIdle /\ EscIdle /\ SessionIdle /\ IntelIdle /\ DbIdle

NextDbMessages ==
    \E t \in Tasks :
        \/ \E sid \in DbSessionIds, text \in Texts : StartAddMessage(t, sid, text)
        \/ FindOne(t)
        \/ InsertSession(t)
        \/ SaveMessage(t)

SpecDbMessages == InitDbMessages /\ [][NextDbMessages]_vars

\* the texts of a message list as a multiset
TextCount(messages, text) == Cardinality({k \in DOMAIN messages : messages[k] = text})

\* C11: concurrent add_message calls for one session id are serialized: the
\* stored session holds every message whose call returned, as if the calls
\* had run one after another (no lost update).
C11_NoLostUpdate ==
    \A sid \in DbSessionIds : \A d \in FindSession(sid) :
        /\ Len(d.messages) = Len(added[sid])
        /\ \A text \in Texts :
              TextCount([k \in DOMAIN d.messages |-> d.messages[k].text], text)
                 = TextCount(added[sid], text)

\* ------------------------------------------------------------------------
\* Fingerprints as evidence records
\* ------------------------------------------------------------------------
\* C12: a fingerprint is never deleted or replaced: a fingerprint id the
\* tracker holds stays, and keeps every session id and identifier recorded.
C12_FingerprintAppendOnly ==
    [][\A id \in DOMAIN fingerprints :
          /\ id \in DOMAIN fingerprints'
          /\ Range(fingerprints[id].session_ids) \subseteq Range(fingerprints'[id].session_ids)
          /\ fingerprints[id].phone_numbers \subseteq fingerprints'[id].phone_numbers
          /\ fingerprints[id].upi_ids \subseteq fingerprints'[id].upi_ids
          /\ fingerprints[id].email_addresses \subseteq fingerprints'[id].email_addresses]_vars

\* ScammerFingerprint.get_session_count, is_repeat_offender
get_session_count(fp) == Len(fp.session_ids)
is_repeat_offender(fp) == Len(fp.session_ids) > 1

\* C13: the session count of a fingerprint is the number of distinct session
\* ids tracked against it, and it is a repeat offender exactly when that
\* number is greater than 1.
C13_SessionCountIsDistinctSessions ==
    \A id \in DOMAIN tracked :
        /\ id \in DOMAIN fingerprints
        /\ get_session_count(fingerprints[id]) = Cardinality(tracked[id])
        /\ is_repeat_offender(fingerprints[id]) <=> Cardinality(tracked[id]) > 1

\* ------------------------------------------------------------------------
\* The id of a new fingerprint
\* ------------------------------------------------------------------------
MaxFingerprints == 2

\* identifier sets with two phone numbers, as one text can yield
WideIdSets == [phones : SUBSET (Phones \cup {"p2"}), upis : SUBSET Upis,
               emails : SUBSET Emails]

\* FingerprintTracker.check_fingerprint(intel) on a dict of to_dict()
CheckFingerprint(intel) ==
    /\ Cardinality(DOMAIN fingerprints) < MaxFingerprints
    /\ \E T1 \in {check_fingerprint(Tracker, intel)} :
          /\ fingerprints' = T1.fps
          /\ phone_index' = T1.phone
          /\ upi_index' = T1.upi
          /\ email_index' = T1.email
    /\ UNCHANGED <<acc, returned, handled, tracked>>
    /\ UNCHANGED <<varsEsc, varsDb, varsSession, varsIntel, varsHttp, varsScan, varsDetect, varsAffect, varsRisk, varsQuota>>

InitFingerprintId == TrackerIdle /\ QuotaIdle /\ RiskIdle /\ AffectIdle /\ DetectIdle /\ ScanIdle /\ HttpIdle /\ EscIdle /\ DbIdle /\ SessionIdle /\ IntelIdle

NextFingerprintId == \E ids \in WideIdSets : \E intel \in IntelDicts(ids) : CheckFingerprint(intel)

SpecFingerprintId == InitFingerprintId /\ [][NextFingerprintId]_vars

\* the identifiers registered for a fingerprint id
IndexedTo(id) ==
    {x \in DOMAIN phone_index : phone_index[x] = id}
    \cup {x \in DOMAIN upi_index : upi_index[x] = id}
    \cup {x \in DOMAIN email_index : email_index[x] = id}

\* the hash of the sorted, lowercased, deduplicated values of a set
HashOfSet(values) == [v \in {Lower(x) : x \in values} |-> 1]

\* C14: the id of a fingerprint created for an identifier set without index
\* hit is the hash of the sorted, lowercased, deduplicated values of the whole
\* set, whatever the order the values are listed in.
C14_IdIsHashOfWholeSet ==
    \A id \in DOMAIN fingerprints : id = HashOfSet(IndexedTo(id))

\* ------------------------------------------------------------------------
\* The external collaborators of handle_message
\* ------------------------------------------------------------------------
MaxRequests == 5

\* what a collaborator does with one call: it answers or it fails
\* (timeout, connection error, bad status, no provider available)
Outcomes == {"ok", "fails"}

NoCall == [raised |-> FALSE, value |-> FALSE]

\* ai_providers.generate_response: the reply of the first provider that
\* answers; raises once every provider has failed
generate_response(outcome, reply) == [raised |-> outcome = "fails", value |-> reply]

\* HoneypotAgent._fallback_response on the texts of the model (language en)
fallback_response(message) ==
    IF message \in {Threat, OtpScreenshot} THEN OtpTemplate ELSE DefaultTemplate

\* HoneypotAgent.generate_response without its try/except
get_agent_response_uncaught(outcome, reply, message) == generate_response(outcome, reply)

\* HoneypotAgent.generate_response: neither text of the model is a factual
\* question, and the cleanup leaves a reply of Replies as it is
get_agent_response(outcome, reply, message) ==
    IF generate_response(outcome, reply).raised
        THEN [raised |-> FALSE, value |-> fallback_response(message)]
        ELSE [raised |-> FALSE, value |-> generate_response(outcome, reply).value]

\* send_final_result: requests.Timeout and RequestException become
\* success False, a status other than 200 and 201 too
send_final_result(outcome) == [raised |-> FALSE, value |-> outcome = "ok"]

\* send_discord_alert and send_telegram_alert: False when the webhook is not
\* configured, when the post raises and when the status is not 200
send_alert(outcome) == [raised |-> FALSE, value |-> outcome = "ok"]

\* ------------------------------------------------------------------------
\* Card and Aadhar numbers in the intel bundle: intelligence.py
\* ------------------------------------------------------------------------
MinDigits == 9
MaxDigits == 16

Digit(k) == <<"0", "1", "2", "3", "4", "5", "6", "7", "8", "9">>[k + 1]

\* the numbers of the texts: n digits counting up from lead, or lead n times
Numbers ==
    {[i \in 1..n |-> Digit((lead + i - 1) % 10)] : n \in MinDigits..MaxDigits, lead \in {3, 4, 6}}
    \cup {[i \in 1..n |-> Digit(lead)] : n \in MinDigits..MaxDigits, lead \in {3, 4, 6}}

\* A text is an optional word, a space and a number written in one run or in
\* groups of four digits with a space between them.
ScanTexts == [label : {"", "card", "aadhar"}, digits : Numbers, grouped : BOOLEAN]

Prefix(seq, n) == SubSeq(seq, 1, Min(n, Len(seq)))

Suffix(seq, n) == SubSeq(seq, Len(seq) - n + 1, Len(seq))

\* the cleaned matches of PATTERNS["bank_account"]: a run of 9 to 18 digits,
\* or three groups of four and a group of 2 to 6, up to a word boundary
bank_account_matches(text) ==
    IF ~text.grouped
        THEN IF Len(text.digits) >= 9 /\ Len(text.digits) <= 18 THEN {text.digits} ELSE {}
        ELSE IF Len(text.digits) >= 14 THEN {Prefix(text.digits, 16)} ELSE {}

\* extract_bank_accounts
extract_bank_accounts(text) ==
    {clean \in bank_account_matches(text) :
        /\ Len(clean) >= 9 /\ Len(clean) <= 18
        /\ Cardinality(Range(clean)) > 2
        /\ ~(Len(clean) = 10 /\ clean[1] \in {"6", "7", "8", "9"})}

\* the cleaned matches of PATTERNS["card"] that extract_card_numbers keeps
card_matches(text) ==
    {clean \in
        (IF ~text.grouped
            THEN IF \/ Len(text.digits) = 16
                    \/ /\ Len(text.digits) = 15
                       /\ text.digits[1] = "3"
                       /\ text.digits[2] \in {"4", "7"}
                    THEN {text.digits} ELSE {}
            ELSE IF Len(text.digits) >= 16 THEN {Prefix(text.digits, 16)} ELSE {}) :
        Len(clean) \in {15, 16}}

\* extract_card_numbers: clean[:4] + "XXXX" + clean[-4:]
extract_card_numbers(text) ==
    {Prefix(clean, 4) \o <<"X", "X", "X", "X">> \o Suffix(clean, 4) : clean \in card_matches(text)}

\* the cleaned matches of PATTERNS["aadhar"] that extract_aadhar keeps
aadhar_matches(text) ==
    {clean \in
        (IF ~text.grouped
            THEN IF Len(text.digits) = 12 THEN {text.digits} ELSE {}
            ELSE IF Len(text.digits) >= 12 THEN {Prefix(text.digits, 12)} ELSE {})
        \cup (IF text.label = "aadhar" /\ Len(text.digits) >= 12
                 THEN {Prefix(text.digits, 12)} ELSE {}) :
        Len(clean) = 12}

\* extract_aadhar: "XXXX-XXXX-" + clean[-4:]
extract_aadhar(text) ==
    {<<"X", "X", "X", "X", "-", "X", "X", "X", "X", "-">> \o Suffix(clean, 4) :
        clean \in aadhar_matches(text)}

\* extract_from_text on a text of ScanTexts: the three fields a number can land in
ExtractFromText ==
    /\ ~scan.done
    /\ scan' = [scan EXCEPT !.done = TRUE,
                            !.bank_accounts = extract_bank_accounts(scan.text),
                            !.card_numbers = extract_card_numbers(scan.text),
                            !.aadhar_numbers = extract_aadhar(scan.text)]
    /\ UNCHANGED <<varsEsc, varsTracker, varsDb, varsSession, varsIntel, varsHttp, varsDetect, varsAffect, varsRisk, varsQuota>>

InitScan ==
    /\ TrackerIdle /\ QuotaIdle /\ RiskIdle /\ AffectIdle /\ DetectIdle /\ HttpIdle /\ EscIdle /\ DbIdle /\ SessionIdle /\ IntelIdle
    /\ \E text \in ScanTexts :
          scan = [text |-> text, done |-> FALSE,
                  bank_accounts |-> {}, card_numbers |-> {}, aadhar_numbers |-> {}]

NextScan == ExtractFromText

SpecScan == InitScan /\ [][NextScan]_vars

\* the digits of a stored value, in order
Digits(value) == SelectSeq(value, LAMBDA c : c \notin {"X", "-"})

HasRun(value, part) ==
    \E i \in 1..(Len(value) - Len(part) + 1) : SubSeq(value, i, i + Len(part) - 1) = part

\* C17: no value of the bundle made of a text contains all the digits of a
\* card number or of an Aadhar number found in that text.
C17_NoFullSensitiveNumberStored ==
    scan.done =>
        \A value \in scan.bank_accounts \cup scan.card_numbers \cup scan.aadhar_numbers :
           \A number \in card_matches(scan.text) \cup aadhar_matches(scan.text) :
              ~HasRun(Digits(value), number)

\* ------------------------------------------------------------------------
\* The confidence of the detector: scam_detector.py
\* ------------------------------------------------------------------------
\* the entries of SCAM_KEYWORDS that occur in the texts of the model;
\* "cvv" is listed under banking and under otp_password
SCAM_KEYWORDS ==
    [urgency |-> {"urgent"}, banking |-> {"cvv"}, otp_password |-> {"otp", "cvv"},
     lottery_prize |-> {"lottery"}, threats |-> {"police", "arrest"}]

\* the number of regular expressions in SUSPICIOUS_PATTERNS
SUSPICIOUS_PATTERNS == 7

\* A text is the keywords it contains and the number of patterns it matches.
DetectTexts ==
    [words : SUBSET (UNION {SCAM_KEYWORDS[c] : c \in DOMAIN SCAM_KEYWORDS}),
     patterns : 0..SUSPICIOUS_PATTERNS]

\* the entries matched_keywords.append(kw) adds, one per category and keyword
matched_entries(text) ==
    {<<category, kw>> \in (DOMAIN SCAM_KEYWORDS) \X text.words : kw \in SCAM_KEYWORDS[category]}

\* confidence in hundredths: 0.4 * min(k / 5, 1) is 8 * min(k, 5), and
\* 0.3 * min(n / 3, 1) is 10 * min(n, 3)
score(k, p, c) ==
    IF c >= 2 THEN Min(8 * Min(k, 5) + 10 * Min(p, 3) + 10 * Min(c, 3) + 15, 100)
    ELSE 8 * Min(k, 5) + 10 * Min(p, 3) + 10 * Min(c, 3)

\* detect_scam: the whole dict, confidence in hundredths
detect_scam_dict(text) ==
    [is_scam |-> score(Cardinality(matched_entries(text)), text.patterns,
                       Cardinality({e[1] : e \in matched_entries(text)})) >= 30,
     confidence |-> score(Cardinality(matched_entries(text)), text.patterns,
                          Cardinality({e[1] : e \in matched_entries(text)})),
     matched_keywords |-> {e[2] : e \in matched_entries(text)},
     categories |-> {e[1] : e \in matched_entries(text)}]

DetectScam ==
    /\ ~detection.done
    /\ detection' = [detection EXCEPT !.done = TRUE, !.result = detect_scam_dict(detection.text)]
    /\ UNCHANGED <<varsEsc, varsTracker, varsDb, varsSession, varsIntel, varsHttp, varsScan, varsAffect, varsRisk, varsQuota>>

InitDetect ==
    /\ TrackerIdle /\ QuotaIdle /\ RiskIdle /\ AffectIdle /\ ScanIdle /\ HttpIdle /\ EscIdle /\ DbIdle /\ SessionIdle /\ IntelIdle
    /\ \E text \in DetectTexts : detection = [text |-> text, done |-> FALSE, result |-> NoResult]

NextDetect == DetectScam

SpecDetect == InitDetect /\ [][NextDetect]_vars

\* C18: the confidence is 0.4*min(k/5,1) + 0.3*min(p/3,1) + 0.3*min(c/3,1),
\* plus 0.15 capped at 1.0 when c >= 2, for k distinct matched keywords, p
\* pattern hits and c matched categories, and is_scam says it is at least 0.30.
C18_ConfidenceFormula ==
    detection.done =>
        /\ detection.result.confidence =
              score(Cardinality(detection.result.matched_keywords), detection.text.patterns,
                    Cardinality(detection.result.categories))
        /\ detection.result.is_scam <=>
              score(Cardinality(detection.result.matched_keywords), detection.text.patterns,
                    Cardinality(detection.result.categories)) >= 30

\* ------------------------------------------------------------------------
\* The affect machine: emotional_state.py
\* ------------------------------------------------------------------------
MaxTransitions == 4

EmotionalState ==
    {"confused", "concerned", "scared", "compliant", "hesitant", "suspicious", "panicked"}

\* STATE_TRANSITIONS: per state and tactic the candidate state and the
\* probability of the move, in tenths
STATE_TRANSITIONS ==
    [confused |->
        [threat |-> [state |-> "scared", probability |-> 7],
         urgency |-> [state |-> "concerned", probability |-> 6],
         authority |-> [state |-> "concerned", probability |-> 5],
         help |-> [state |-> "compliant", probability |-> 4],
         default |-> [state |-> "confused", probability |-> 8]],
     concerned |->
        [threat |-> [state |-> "scared", probability |-> 8],
         urgency |-> [state |-> "panicked", probability |-> 3],
         reassure |-> [state |-> "compliant", probability |-> 6],
         help |-> [state |-> "compliant", probability |-> 7],
         default |-> [state |-> "concerned", probability |-> 6]],
     scared |->
        [threat |-> [state |-> "panicked", probability |-> 5],
         reassure |-> [state |-> "compliant", probability |-> 7],
         help |-> [state |-> "compliant", probability |-> 8],
         pressure |-> [state |-> "hesitant", probability |-> 4],
         default |-> [state |-> "scared", probability |-> 6]],
     compliant |->
        [pressure |-> [state |-> "hesitant", probability |-> 5],
         threat |-> [state |-> "scared", probability |-> 4],
         reassure |-> [state |-> "compliant", probability |-> 8],
         default |-> [state |-> "compliant", probability |-> 7]],
     hesitant |->
        [threat |-> [state |-> "scared", probability |-> 6],
         pressure |-> [state |-> "suspicious", probability |-> 5],
         reassure |-> [state |-> "compliant", probability |-> 5],
         default |-> [state |-> "hesitant", probability |-> 6]],
     suspicious |->
        [threat |-> [state |-> "scared", probability |-> 4],
         reassure |-> [state |-> "hesitant", probability |-> 5],
         default |-> [state |-> "suspicious", probability |-> 7]],
     panicked |->
        [reassure |-> [state |-> "scared", probability |-> 6],
         help |-> [state |-> "compliant", probability |-> 5],
         default |-> [state |-> "panicked", probability |-> 5]]]

\* the operator messages of the model, one per answer of detect_tactic and
\* "help", which TACTIC_KEYWORDS lists under reassure before help
AffectMessages ==
    {"police will arrest you", "do it quickly", "i am an officer", "this is the deadline",
     "you are safe", "help", "we will assist you", "hello"}

\* EmotionalContext.detect_tactic: the first tactic of TACTIC_KEYWORDS with a
\* keyword in the message
detect_tactic(message) ==
    IF message \in {"police will arrest you", Threat} THEN "threat"
    ELSE IF message = "do it quickly" THEN "urgency"
    ELSE IF message = "i am an officer" THEN "authority"
    ELSE IF message = "this is the deadline" THEN "pressure"
    ELSE IF message \in {"you are safe", "help"} THEN "reassure"
    ELSE IF message = "we will assist you" THEN "help"
    ELSE "default"

\* the entry transition() takes from the table
Entry(state, tactic) ==
    IF tactic \in DOMAIN STATE_TRANSITIONS[state]
        THEN STATE_TRANSITIONS[state][tactic]
        ELSE STATE_TRANSITIONS[state]["default"]

\* transition() counting every processed message as a transition
transition_counts_messages(context, message, draw) ==
    IF draw < Entry(context.current_state, detect_tactic(message)).probability
        THEN [context EXCEPT
                !.current_state = Entry(context.current_state, detect_tactic(message)).state,
                !.state_history =
                    Append(@, Entry(context.current_state, detect_tactic(message)).state),
                !.transition_count = @ + 1]
        ELSE [context EXCEPT !.transition_count = @ + 1]

\* EmotionalContext.transition; draw is random.random() in tenths
transition(context, message, draw) ==
    IF draw < Entry(context.current_state, detect_tactic(message)).probability
        THEN [context EXCEPT
                !.current_state = Entry(context.current_state, detect_tactic(message)).state,
                !.state_history =
                    Append(@, Entry(context.current_state, detect_tactic(message)).state),
                !.transition_count = @ + 1]
        ELSE context

Transition(message, draw) ==
    /\ emotion.transition_count < MaxTransitions
    /\ emotion' = transition(emotion, message, draw)
    /\ inbound' = message
    /\ UNCHANGED <<varsEsc, varsTracker, varsDb, varsSession, varsIntel, varsHttp,
                   varsScan, varsDetect, varsRisk, varsQuota>>

InitAffect ==
    /\ TrackerIdle /\ QuotaIdle /\ RiskIdle /\ AffectIdle /\ DetectIdle /\ ScanIdle /\ HttpIdle /\ EscIdle
    /\ DbIdle /\ SessionIdle /\ IntelIdle

NextAffect == \E message \in AffectMessages, draw \in 0..9 : Transition(message, draw)

SpecAffect == InitAffect /\ [][NextAffect]_vars

\* C19: a processed message leaves state, history and counter as they were,
\* or moves to the candidate of the entry for (current state, detected tactic),
\* the default entry when the state has none for the tactic, appends that state
\* to the history and adds one to the counter; a threat in Confused leads only
\* to Scared or Confused.
C19_TransitionFollowsTable ==
    [][/\ \/ emotion' = emotion
          \/ emotion' =
               [current_state |-> Entry(emotion.current_state, detect_tactic(inbound')).state,
                state_history |->
                    Append(emotion.state_history,
                           Entry(emotion.current_state, detect_tactic(inbound')).state),
                transition_count |-> emotion.transition_count + 1]
       /\ (emotion.current_state = "confused" /\ detect_tactic(inbound') = "threat"
             => emotion'.current_state \in {"scared", "confused"})]_vars

\* a threat moved the machine from Confused to Scared, and a later message
\* with a tactic Scared has no entry for took the default entry
C19_Witness ==
    /\ emotion.state_history = <<"confused", "scared", "scared">>
    /\ emotion.transition_count = 2
    /\ inbound = "do it quickly"

\* the states one successful draw away from a state
Candidates(state) ==
    {STATE_TRANSITIONS[state][tactic].state : tactic \in DOMAIN STATE_TRANSITIONS[state]}

RECURSIVE Closure(_)
Closure(states) ==
    IF UNION {Candidates(state) : state \in states} \subseteq states THEN states
    ELSE Closure(states \cup UNION {Candidates(state) : state \in states})

\* the states some sequence of messages and draws leads to from a state
ReachableFrom(state) == Closure(Candidates(state))

\* C20: the machine starts in Confused, no state is terminal, and from every
\* state it is in each of the seven states can still be reached.
C20_FreeCycling ==
    /\ emotion.transition_count = 0 => emotion.current_state = "confused"
    /\ Candidates(emotion.current_state) \ {emotion.current_state} # {}
    /\ \A state \in EmotionalState : state \in ReachableFrom(emotion.current_state)

\* ------------------------------------------------------------------------
\* handle_message and its collaborators: main.py
\* ------------------------------------------------------------------------
\* the caller's view of one request
Response(s, text, generation, delivery, alerting, draw, status, reply, image_type) ==
    [session |-> s, text |-> text, generation |-> generation, delivery |-> delivery,
     alerting |-> alerting, draw |-> draw, status |-> status, reply |-> reply,
     image_type |-> image_type]

\* emotional_states[sessionId], created on the session's first request
emotion_of(states, s) == IF s \in DOMAIN states THEN states[s] ELSE EmotionalContext

\* handle_message with its collaborators, in the order of its steps: a call
\* that raises ends the handler where it stands and the caller gets an
\* error.  draw is random.random() of emotion.transition in tenths.  What
\* the handler does to the fingerprint tracker is HandleIntel.
HandleRequest(s, text, reply, generation, delivery, alerting, draw) ==
    /\ requests < MaxRequests
    /\ requests' = requests + 1
    /\ \E received \in {add_message(get_or_create(session_store, s)[s], "scammer", text)} :
       \E scam_result \in {scam_result_of(received, text)} :
       \E detected \in {update_scam_status(received, scam_result)} :
       \E new_session \in {IF scam_result.is_scam /\ Len(received.conversation) = 1
                               THEN send_alert(alerting) ELSE NoCall} :
       \E image_type \in {image_type_for(text, get_current_stage(conversation_stage, s))} :
       \E answer \in {IF detected.scam_detected
                          THEN get_agent_response(generation, reply, text)
                          ELSE [raised |-> FALSE, value |-> Neutral]} :
       \E final \in {IF detected.scam_detected THEN with_image(answer.value, image_type)
                         ELSE answer.value} :
          IF new_session.raised \/ answer.raised
          THEN /\ session_store' = (s :> detected) @@ session_store
               /\ emotional_states' =
                     (s :> IF new_session.raised THEN emotion_of(emotional_states, s)
                           ELSE transition(emotion_of(emotional_states, s), text, draw))
                        @@ emotional_states
               /\ response' = Response(s, text, generation, delivery, alerting, draw,
                                       "error", "", "none")
               /\ UNCHANGED <<conversation_stage, advances, deliveries>>
          ELSE
          \E extracted \in
               {[add_message(detected, "user", final) EXCEPT
                   !.intel = merge(extract_from_conversation(
                                      add_message(detected, "user", final).conversation),
                                   extract_from_text(text))]} :
          \E intel_alert \in {IF extracted.intel.phone_numbers # <<>>
                                   \/ extracted.intel.upi_ids # <<>>
                                  THEN send_alert(alerting) ELSE NoCall} :
          \E wanted \in {should_send_callback(AUTO_CALLBACK, Counted(extracted))} :
          \E result \in {IF wanted THEN send_final_result(delivery) ELSE NoCall} :
             /\ session_store' =
                   (s :> (IF wanted /\ ~intel_alert.raised /\ ~result.raised
                             THEN process_callback(extracted, result.value)
                             ELSE extracted)) @@ session_store
             /\ emotional_states' =
                   (s :> transition(emotion_of(emotional_states, s), text, draw))
                      @@ emotional_states
             /\ conversation_stage' = IF detected.scam_detected
                                          THEN advance_stage(conversation_stage, s)
                                          ELSE conversation_stage
             /\ advances' = IF detected.scam_detected
                                THEN [advances EXCEPT ![s] = @ + 1] ELSE advances
             /\ deliveries' = IF wanted /\ ~intel_alert.raised
                                  THEN [deliveries EXCEPT ![s] = Append(@, result.value)]
                                  ELSE deliveries
             /\ response' =
                   IF intel_alert.raised \/ result.raised
                       THEN Response(s, text, generation, delivery, alerting, draw,
                                     "error", "", "none")
                       ELSE Response(s, text, generation, delivery, alerting, draw,
                                     "success", final, image_type)
    /\ UNCHANGED document
    /\ UNCHANGED <<varsEsc, varsTracker, varsDb, varsIntel, varsScan, varsDetect, varsAffect, varsRisk, varsQuota>>

InitHttp == TrackerIdle /\ QuotaIdle /\ RiskIdle /\ AffectIdle /\ DetectIdle /\ ScanIdle /\ HttpIdle /\ EscIdle /\ DbIdle /\ SessionIdle /\ IntelIdle

\* the requests of one conversation: the sessions do not share state here
NextHttp ==
    \E s \in {"s1"}, text \in Texts, reply \in Replies,
       generation \in Outcomes, delivery \in Outcomes, alerting \in Outcomes :
         HandleRequest(s, text, reply, generation, delivery, alerting, 0)

SpecHttp == InitHttp /\ [][NextHttp]_vars

\* the conversation of a session, empty before its first request
ConversationOf(store, s) == IF s \in DOMAIN store THEN store[s].conversation ELSE <<>>

\* C15: whatever the outcome of text generation, escalation delivery and
\* alerting, a request gets a reply back and the session's conversation grows by
\* exactly the operator message followed by that reply; when text generation
\* failed for a session with a detected scam the reply is the local template,
\* with the caption of the image when one is sent.
C15_ProviderFailureIsContained ==
    [][requests' # requests =>
         /\ response'.status = "success"
         /\ ConversationOf(session_store', response'.session) =
               ConversationOf(session_store, response'.session)
                 \o <<[sender |-> "scammer", text |-> response'.text],
                      [sender |-> "user", text |-> response'.reply]>>
         /\ (response'.generation = "fails"
               /\ session_store'[response'.session].scam_detected
               => response'.reply = with_image(fallback_response(response'.text),
                                               response'.image_type))]_vars

\* a request during which all three collaborators failed, the failed delivery included
C15_Witness ==
    /\ response.status = "success"
    /\ response.generation = "fails"
    /\ response.delivery = "fails"
    /\ response.alerting = "fails"
    /\ response.reply = with_image(fallback_response(response.text), response.image_type)
    /\ deliveries[response.session] # <<>>
    /\ ~deliveries[response.session][Len(deliveries[response.session])]

\* C16: once a delivery for a session has failed, at most one more delivery
\* is attempted for that session, whatever messages arrive later.
C16_FailedDeliveryRetriedAtMostOnce ==
    \A s \in Sessions : \A i \in 1..Len(deliveries[s]) :
        ~deliveries[s][i] => Len(deliveries[s]) <= i + 1

\* ------------------------------------------------------------------------
\* Two conversations side by side
\* ------------------------------------------------------------------------
MaxDialogueRequests == 3

DialogueTexts == Texts \cup {OtpScreenshot}

InitDialogue == InitHttp

\* requests of the two sessions in any order, every collaborator answering;
\* the draw of emotion.transition is below every probability or above
NextDialogue ==
    /\ requests < MaxDialogueRequests
    /\ \E s \in Sessions, text \in DialogueTexts, reply \in Replies, draw \in {0, 9} :
         HandleRequest(s, text, reply, "ok", "ok", "ok", draw)

SpecDialogue == InitDialogue /\ [][NextDialogue]_vars

early_stages == {"initial_confusion", "building_trust"}

\* C21: a text that asks for the one-time code while the session is in
\* initial_confusion or building_trust gets the error_network image, and no
\* otp_message image is decided for a session in one of these two stages.
C21_EarlyOtpRequestGetsErrorImage ==
    [][requests' # requests =>
         LET current_stage == get_current_stage(conversation_stage, response'.session)
         IN /\ (otp_keywords_matched(response'.text) # {} /\ current_stage \in early_stages
                  => response'.image_type = "error_network")
            /\ (response'.image_type = "otp_message" => current_stage \notin early_stages)]_vars

\* the second half alone: no otp_message image in an early stage
NoOtpImageInEarlyStage ==
    [][requests' # requests /\ response'.image_type = "otp_message"
         => get_current_stage(conversation_stage, response'.session) \notin early_stages]_vars

\* an otp_message image was sent
OtpImageSent == response.image_type = "otp_message"

\* ------------------------------------------------------------------------
\* Risk score and threat level of a fingerprint document: db/models/scammer.py
\* ------------------------------------------------------------------------
MaxRiskSessions == 13

\* the sessions that are linked to the fingerprint, numbered
RiskSessionIds == 1..MaxRiskSessions

RiskPhones == {"+919876543210", "+919876500000"}

\* a session document as _link_to_scammer reads it
RiskSession(session_id, phones) ==
    [session_id |-> session_id,
     intel |-> [phones |-> phones, emails |-> <<>>, upi_ids |-> <<>>]]

\* _link_to_scammer created the document for session 1
InitRisk ==
    /\ TrackerIdle /\ QuotaIdle /\ AffectIdle /\ DetectIdle /\ ScanIdle /\ HttpIdle /\ EscIdle
    /\ DbIdle /\ SessionIdle /\ IntelIdle
    /\ fingerprint_doc = [NoScammer EXCEPT !.phone_numbers = <<"+919876543210">>,
                                           !.session_ids = <<1>>,
                                           !.total_sessions = 1]

\* _link_to_scammer found the document for a session: add_session and
\* add_identifier on the document object
LinkAgain(session_id, phones) ==
    /\ fingerprint_doc' = LinkUpdated(fingerprint_doc, RiskSession(session_id, phones))
    /\ UNCHANGED <<varsEsc, varsTracker, varsDb, varsSession, varsIntel, varsHttp,
                   varsScan, varsDetect, varsAffect, varsQuota>>

\* a session that is linked already, or one of the next two
NextRisk ==
    \E session_id \in RiskSessionIds, phone \in RiskPhones :
        /\ session_id <= Len(fingerprint_doc.session_ids) + 2
        /\ LinkAgain(session_id, <<phone>>)

SpecRisk == InitRisk /\ [][NextRisk]_vars

NineSessionsAreHigh ==
    Len(fingerprint_doc.session_ids) = 9 => fingerprint_doc.threat_level = "high"

\* ------------------------------------------------------------------------
\* The daily scan limit of the free tier: services/scan_service.py,
\* db/models/subscription.py
\* ------------------------------------------------------------------------
\* _check_scan_limit: "Free tier: 10 scans/day"
FreeDailyLimit == 10

\* Subscription.increment_scan_count on a loaded document, up to its save; the
\* days of the model are days of one month
increment_scan_count(doc, day) ==
    [doc EXCEPT
       !.scans_today = (IF doc.last_scan_date # -1 /\ doc.last_scan_date # day THEN 0 ELSE @) + 1,
       !.scans_this_month = @ + 1,
       !.last_scan_date = day]

\* scan_message up to the end of _check_scan_limit: find_one, then the test
\* of scans_today on the document it returned
CheckScanLimit(t) ==
    /\ scan_task[t].pc = "idle"
    /\ \A d \in Days : scans[d] < MaxScans
    /\ IF subscription.plan_tier = "free" /\ subscription.scans_today >= FreeDailyLimit
          THEN /\ rejected' = rejected \cup {[day |-> today,
                                              last_scan_date |-> subscription.last_scan_date]}
               /\ UNCHANGED scan_task
          ELSE /\ scan_task' = [scan_task EXCEPT ![t].pc = "insert"]
               /\ UNCHANGED rejected
    /\ UNCHANGED <<subscription, today, scans>>
    /\ UNCHANGED <<varsEsc, varsTracker, varsDb, varsSession, varsIntel, varsHttp,
                   varsScan, varsDetect, varsAffect, varsRisk>>

\* detect_scam, extract_from_text, await UserSettings.get_or_create, await scan.insert()
InsertScan(t) ==
    /\ scan_task[t].pc = "insert"
    /\ scans' = [scans EXCEPT ![today] = @ + 1]
    /\ scan_task' = [scan_task EXCEPT ![t].pc = "find"]
    /\ UNCHANGED <<subscription, today, rejected>>
    /\ UNCHANGED <<varsEsc, varsTracker, varsDb, varsSession, varsIntel, varsHttp,
                   varsScan, varsDetect, varsAffect, varsRisk>>

\* _increment_scan_count: await Subscription.find_one
FindSubscription(t) ==
    /\ scan_task[t].pc = "find"
    /\ scan_task' = [scan_task EXCEPT ![t] = [pc |-> "save", subscription |-> subscription]]
    /\ UNCHANGED <<subscription, today, scans, rejected>>
    /\ UNCHANGED <<varsEsc, varsTracker, varsDb, varsSession, varsIntel, varsHttp,
                   varsScan, varsDetect, varsAffect, varsRisk>>

\* increment_scan_count on the loaded document and its save, which writes
\* the whole document; scan_message returns
SaveSubscription(t) ==
    /\ scan_task[t].pc = "save"
    /\ subscription' = increment_scan_count(scan_task[t].subscription, today)
    /\ scan_task' = [scan_task EXCEPT ![t] = NoScanTask]
    /\ UNCHANGED <<today, scans, rejected>>
    /\ UNCHANGED <<varsEsc, varsTracker, varsDb, varsSession, varsIntel, varsHttp,
                   varsScan, varsDetect, varsAffect, varsRisk>>

\* midnight UTC
NextDay ==
    /\ today < MaxDays
    /\ today' = today + 1
    /\ UNCHANGED <<subscription, scan_task, scans, rejected>>
    /\ UNCHANGED <<varsEsc, varsTracker, varsDb, varsSession, varsIntel, varsHttp,
                   varsScan, varsDetect, varsAffect, varsRisk>>

InitQuota ==
    /\ TrackerIdle /\ AffectIdle /\ DetectIdle /\ ScanIdle /\ HttpIdle /\ EscIdle
    /\ DbIdle /\ SessionIdle /\ IntelIdle /\ RiskIdle /\ QuotaIdle

NextQuota ==
    \/ \E t \in ScanTasks :
        \/ CheckScanLimit(t)
        \/ InsertScan(t)
        \/ FindSubscription(t)
        \/ SaveSubscription(t)
    \/ NextDay

SpecQuota == InitQuota /\ [][NextQuota]_vars

\* C23: the free-tier user completes at most 10 scans per day, also when
\* several of the user's scan requests are in flight at once.
C23_AtMostTenScansPerDay == \A d \in Days : scans[d] <= FreeDailyLimit

\* C30: a scan request is rejected only for scans counted on the day of the
\* request: after the day has changed the user who had reached the limit can
\* scan again.
C30_LimitEndsWithTheDay == \A r \in rejected : r.last_scan_date = r.day

\* ------------------------------------------------------------------------
\* Escalation over the life of a session: messages and force-callback
\* ------------------------------------------------------------------------
\* POST /api/force-callback/{session_id}: 404 without a session, nothing
\* once the callback is sent, process_callback otherwise
ForceCallbackRequest(s, delivery) ==
    /\ Len(deliveries[s]) < MaxRequests
    /\ IF s \notin DOMAIN session_store
          THEN /\ response' = Response(s, "", "ok", delivery, "ok", 0, "not found", "", "none")
               /\ UNCHANGED <<session_store, deliveries>>
       ELSE IF session_store[s].callback_sent
          THEN /\ response' = Response(s, "", "ok", delivery, "ok", 0, "already_sent", "", "none")
               /\ UNCHANGED <<session_store, deliveries>>
       ELSE /\ session_store' =
                  [session_store EXCEPT
                     ![s] = process_callback(@, send_final_result(delivery).value)]
            /\ deliveries' = [deliveries EXCEPT
                                ![s] = Append(@, send_final_result(delivery).value)]
            /\ response' = Response(s, "", "ok", delivery, "ok", 0,
                                    IF send_final_result(delivery).value
                                        THEN "success" ELSE "failed",
                                    "", "none")
    /\ UNCHANGED <<conversation_stage, advances, document, requests, emotional_states>>
    /\ UNCHANGED <<varsEsc, varsTracker, varsDb, varsIntel, varsScan, varsDetect, varsAffect,
                   varsRisk, varsQuota>>

InitEscalation == InitHttp

\* messages and force-callback calls of one conversation in any order; the
\* deliveries succeed or fail, the other collaborators answer
NextEscalation ==
    \/ \E s \in {"s1"}, text \in Texts, reply \in Replies, delivery \in Outcomes :
         HandleRequest(s, text, reply, "ok", delivery, "ok", 0)
    \/ \E s \in {"s1"}, delivery \in Outcomes : ForceCallbackRequest(s, delivery)

SpecEscalation == InitEscalation /\ [][NextEscalation]_vars

\* C24: per session at most one delivery succeeds: a successful delivery is
\* the last delivery of its session and the session's callback_sent is set
\* from then on, whatever messages and force-callback calls follow.
C24_AtMostOneSuccessfulDelivery ==
    \A s \in Sessions : \A i \in 1..Len(deliveries[s]) :
        deliveries[s][i] =>
            /\ i = Len(deliveries[s])
            /\ s \in DOMAIN session_store
            /\ session_store[s].callback_sent

\* a force-callback call after the fifth message of a session that began
\* with a payment handle: its one delivery, made with the third message at the
\* latest, succeeded, and two more messages and the call came after it
C24_Witness ==
    /\ response.status = "already_sent"
    /\ response.session \in DOMAIN session_store
    /\ deliveries[response.session] = <<TRUE>>
    /\ Len(session_store[response.session].conversation) = 10
    /\ session_store[response.session].conversation[1].text = Pay

\* every delivery attempted so far has succeeded
EveryDeliverySucceeded ==
    \A s \in Sessions : \A i \in 1..Len(deliveries[s]) : deliveries[s][i]

\* C25: with AUTO_CALLBACK on and every attempted delivery successful, every
\* session with scam_detected and 10 or more messages has callback_sent set
\* after each handled message.
C25_TenMessagesAreEscalated ==
    AUTO_CALLBACK /\ EveryDeliverySucceeded =>
        \A s \in DOMAIN session_store :
            session_store[s].scam_detected /\ Len(session_store[s].conversation) >= 10
                => session_store[s].callback_sent

\* a session without intel whose first delivery was made with its tenth message
C25_Witness ==
    /\ EveryDeliverySucceeded
    /\ \E s \in DOMAIN session_store :
        /\ Len(session_store[s].conversation) = 10
        /\ session_store[s].intel.upi_ids = <<>>
        /\ session_store[s].callback_sent
        /\ deliveries[s] = <<TRUE>>
        /\ response.session = s
        /\ response.text # ""

\* ------------------------------------------------------------------------
\* The scam status of a session over its requests: main.py 402-417
\* ------------------------------------------------------------------------
\* C26: within a session the scam status never regresses: over every request
\* a session that is there stays there, a set scam_detected flag stays set
\* whatever the message, and scam_confidence does not decrease.
C26_ScamStatusNeverRegresses ==
    [][\A s \in DOMAIN session_store :
          /\ s \in DOMAIN session_store'
          /\ session_store[s].scam_detected => session_store'[s].scam_detected
          /\ session_store'[s].scam_confidence >= session_store[s].scam_confidence]_vars

\* a session whose stored confidence comes from its second message and was
\* kept over a third message that is a scam with a lower confidence
C26_Witness ==
    /\ "s1" \in DOMAIN session_store
    /\ Len(session_store["s1"].conversation) = 6
    /\ session_store["s1"].conversation[5].text = Threat
    /\ detect_scam_result(Threat).confidence < session_store["s1"].scam_confidence
    /\ session_store["s1"].scam_detected
    /\ response.session = "s1" /\ response.text = Threat

\* ------------------------------------------------------------------------
\* What one request leaves alone: main.py 361-385, smart_tactics.py 39-49
\* ------------------------------------------------------------------------
\* what the handler keeps about session s: its Session, its tactics stage
\* and its EmotionalContext, each absent before the session's first request
StateOfSession(s) ==
    [session |-> IF s \in DOMAIN session_store THEN <<session_store[s]>> ELSE <<>>,
     stage |-> IF s \in DOMAIN conversation_stage THEN <<conversation_stage[s]>> ELSE <<>>,
     emotion |-> IF s \in DOMAIN emotional_states THEN <<emotional_states[s]>> ELSE <<>>]

\* C29: a request for one session id leaves every other session's message
\* list, scam_detected, scam_confidence, callback_sent, tactics stage and
\* emotional state as they were.
C29_OtherSessionsUnchanged ==
    [][\A s \in Sessions : s # response'.session => StateOfSession(s)' = StateOfSession(s)]_vars

\* a request for s2 has been handled while s1 holds a detected scam, a stage
\* and an emotional state of its own
C29_Witness ==
    /\ response.session = "s2" /\ response.status = "success"
    /\ DOMAIN session_store = {"s1", "s2"}
    /\ session_store["s1"].scam_detected /\ session_store["s2"].scam_detected
    /\ Len(session_store["s1"].conversation) = 4
    /\ conversation_stage["s1"] = "fake_compliance"
    /\ conversation_stage["s2"] = "building_trust"
    /\ emotional_states["s1"].transition_count = 2
    /\ emotional_states["s2"].transition_count = 1

\* ------------------------------------------------------------------------
\* What check_fingerprint does to the tracker: scammer_fingerprint.py 214-230
\* ------------------------------------------------------------------------
\* C27: check_fingerprint is a pure query: no call of it changes the
\* fingerprint store or the phone, payment-handle and email indices.
C27_CheckFingerprintIsPureQuery ==
    [][UNCHANGED <<fingerprints, phone_index, upi_index, email_index>>]_vars

\* what does hold: check_fingerprint never removes or repoints what is there
CheckFingerprintOnlyAdds ==
    [][/\ \A id \in DOMAIN fingerprints :
             id \in DOMAIN fingerprints' /\ fingerprints'[id].session_ids = <<>>
       /\ \A x \in DOMAIN email_index : x \in DOMAIN email_index']_vars

\* ------------------------------------------------------------------------
\* The indices and the identifier sets: scammer_fingerprint.py 100-184
\* ------------------------------------------------------------------------
\* the index entries of one family all point to fingerprints of the store
PointsIntoStore(index) == \A x \in DOMAIN index : index[x] \in DOMAIN fingerprints

\* C28: each entry of the phone, payment-handle and email indices points to
\* a fingerprint of the store whose identifier set of that family contains
\* the indexed value.
C28_IndexedValueIsInItsFingerprint ==
    /\ PointsIntoStore(phone_index) /\ PointsIntoStore(upi_index)
    /\ PointsIntoStore(email_index)
    /\ \A x \in DOMAIN phone_index : x \in fingerprints[phone_index[x]].phone_numbers
    /\ \A x \in DOMAIN upi_index : x \in fingerprints[upi_index[x]].upi_ids
    /\ \A x \in DOMAIN email_index : x \in fingerprints[email_index[x]].email_addresses

\* what does hold: every index entry points to a fingerprint of the store
IndexEntriesPointIntoStore ==
    PointsIntoStore(phone_index) /\ PointsIntoStore(upi_index) /\ PointsIntoStore(email_index)

\* a request whose only identifier is an email address has been handled: the
\* address is indexed and the session was not tracked
EmailOnlyRequestHandled ==
    /\ handled = 1 /\ DOMAIN email_index = Emails
    /\ DOMAIN phone_index = {} /\ DOMAIN upi_index = {}

====
